---- MODULE Spec2Model ----
(***************************************************************************)
(* A model of genji's catalog (internal/database/catalog.go): the          *)
(* in-memory cache of tables, indexes and sequences, the catalog rows      *)
(* persisted in namespace 1, the store sequence that allocates             *)
(* namespaces, and the rollback hooks of the transaction.                  *)
(* Further specifications of the module model the namespaces of a kv       *)
(* session (KvSpec), the keys of tree.NewKey (KeySpec) and the pipelines   *)
(* that UPDATE and DELETE statements prepare (PlanSpec), the rows and      *)
(* index entries these pipelines write (DmlSpec), REINDEX over indexes     *)
(* written behind the table's back (ReIndexSpec), the choice of an index  *)
(* by the planner (SelectSpec) and the rules that run before it            *)
(* (RuleSpec), a table scan under a consumer that stops it (ScanSpec), and  *)
(* Optimize on streams of Concat and Union (OptimizeSpec).                 *)
(***************************************************************************)
EXTENDS Integers, Sequences, FiniteSets, TLC

VARIABLES
    cache,      \* catalogCache: [tables, indexes, sequences], each name -> object
    rows,       \* the catalog table (namespace 1) in the transaction's batch: name -> document
    data,       \* the store namespaces of tables and indexes in the batch: id -> set of keys
    seqTable,   \* the sequence table (namespace 2) in the batch: name -> current value
    hooks,      \* tx.OnRollbackHooks, oldest first
    committed,  \* what the store holds outside the batch: [rows, data, seqTable]
    txCache,    \* history: the cache as it was when the transaction began
    txOk,       \* history: every catalog call of the transaction succeeded so far
    calls,      \* history: number of catalog calls made so far
    last,       \* history: the last call, its arguments and its outcome
    pdb,        \* kv: the store of the session, prefixed key -> value
    readOnly,   \* kv: the session was opened read-only
    kvLast,     \* kv history: the last namespace call and its result
    keyIn,      \* keys: the two tuples of values given to NewKey
    keyOut,     \* keys: the two results of NewKey, once it ran
    planIn,     \* plans: the statement and what the catalog says of its table
    planOut,    \* plans: the result of Prepare, once it ran
    tabs,       \* rows: table name -> [rows: key -> document, seq: last docid]
    entries,    \* rows: index name -> set of entries <<values, key>>
    dmlLast,    \* rows history: the last statement and how it ended
    scanned,    \* rows history: whether the last statement scanned and left the rows as it should
    selIn,      \* optimizer: the stream given to a rule and the catalog
    selOut,     \* optimizer: the stream the rule left, once it ran
    scanIn,     \* scan: the rows of each range and what the consumer answers, call by call
    scanOut     \* scan: the rows handed to the consumer and the result of Iterate, once it ran

catVars == <<cache, rows, data, seqTable, hooks, committed, txCache, txOk, calls, last>>
kvVars == <<pdb, readOnly, kvLast>>
keyVars == <<keyIn, keyOut>>
planVars == <<planIn, planOut>>
dmlVars == <<tabs, entries, dmlLast, scanned>>
selVars == <<selIn, selOut>>
scanVars == <<scanIn, scanOut>>
vars == <<catVars, kvVars, keyVars, planVars, dmlVars, selVars, scanVars>>
\* what the catalog's operations leave alone
notCatVars == <<kvVars, keyVars, planVars, dmlVars, selVars, scanVars>>
\* what the operations of a kv namespace leave alone
notKvVars == <<catVars, keyVars, planVars, dmlVars, selVars, scanVars>>
\* what NewKey leaves alone
notKeyVars == <<catVars, kvVars, planVars, dmlVars, selVars, scanVars>>
\* what Prepare leaves alone
notPlanVars == <<catVars, kvVars, keyVars, dmlVars, selVars, scanVars>>
\* what the statements on rows leave alone
notDmlVars == <<catVars, kvVars, keyVars, planVars, selVars, scanVars>>
\* what the rules of the optimizer leave alone
notSelVars == <<catVars, kvVars, keyVars, planVars, dmlVars, scanVars>>
\* what a scan leaves alone
notScanVars == <<catVars, kvVars, keyVars, planVars, dmlVars, selVars>>

---------------------------------------------------------------------------
(* Program constants *)

CatalogTableNamespace == 1
SequenceTableNamespace == 2
StoreSeqStart == 101

CatalogTableName == "__genji_catalog"
StoreSequence == "__genji_store_seq"
RelationTableType == "table"
RelationIndexType == "index"
RelationSequenceType == "sequence"

(* Bounds of the model *)

\* catalog calls in one behaviour (each allocates at most one namespace)
MaxCalls == 3

TableNames == {"t", "u"}
IndexNameInputs == {"", "u"}
SequenceNameInputs == {"", "u", "t_a_idx"}
Fields == {"a"}
\* the fields ALTER TABLE ... ADD names
AddedFields == {"a", "b"}
Keys == {"k"}

NamespaceIds == StoreSeqStart .. (StoreSeqStart + MaxCalls - 1)

ErrNone == "ok"
ErrAlreadyExists == "AlreadyExists"
ErrNotFound == "NotFound"
ErrRefused == "Refused"
ErrNameRequired == "NameRequired"

NoValue == 0
NoOwner == [table |-> "", paths |-> <<>>]
NoObject == [none |-> TRUE]

---------------------------------------------------------------------------
(* Maps *)

MapPut(m, k, v) == (k :> v) @@ m
MapDelete(m, k) == [x \in (DOMAIN m) \ {k} |-> m[x]]
EmptyMap == [x \in {} |-> NoObject]

Result(c, err) == [c |-> c, err |-> err, o |-> NoObject]
ResultWith(c, err, o) == [c |-> c, err |-> err, o |-> o]

---------------------------------------------------------------------------
(* catalogCache *)

newCatalogCache == [tables |-> EmptyMap, indexes |-> EmptyMap, sequences |-> EmptyMap]

getMapByType(cc, tp) ==
    CASE tp = RelationTableType -> cc.tables
      [] tp = RelationIndexType -> cc.indexes
      [] tp = RelationSequenceType -> cc.sequences

setMapByType(cc, tp, m) ==
    CASE tp = RelationTableType -> [cc EXCEPT !.tables = m]
      [] tp = RelationIndexType -> [cc EXCEPT !.indexes = m]
      [] tp = RelationSequenceType -> [cc EXCEPT !.sequences = m]

objectExists(cc, name) ==
    \/ name \in DOMAIN cc.tables
    \/ name \in DOMAIN cc.sequences
    \/ name \in DOMAIN cc.indexes

\* the loop formatting the counter into every candidate, the first included
RECURSIVE generateUnusedNameSuffixed(_, _, _)
generateUnusedNameSuffixed(cc, baseName, i) ==
    LET name == baseName \o ToString(i)
    IN  IF ~objectExists(cc, name) THEN name
        ELSE generateUnusedNameSuffixed(cc, baseName, i + 1)

\* the loop of generateUnusedName entered with counter i
RECURSIVE generateUnusedNameFrom(_, _, _)
generateUnusedNameFrom(cc, baseName, i) ==
    LET name == IF i = 0 THEN baseName ELSE baseName \o ToString(i)
    IN  IF ~objectExists(cc, name) THEN name
        ELSE generateUnusedNameFrom(cc, baseName, i + 1)

generateUnusedName(cc, baseName) == generateUnusedNameFrom(cc, baseName, 0)

\* Relation.GenerateBaseName
GenerateBaseName(tp, o) ==
    CASE tp = RelationTableType -> o.name
      [] tp = RelationIndexType -> o.table \o "_" \o o.paths[1] \o "_idx"
      [] tp = RelationSequenceType -> o.owner.table \o "_seq"

\* the closures appended to tx.OnRollbackHooks
HookDelete(tp, name) == [op |-> "delete", tp |-> tp, name |-> name, o |-> NoObject]
HookSet(tp, name, o) == [op |-> "set", tp |-> tp, name |-> name, o |-> o]

\* Add without the test of objectExists
CacheAddUnchecked(c, tp, o) ==
    LET name == IF o.name # "" THEN o.name
                ELSE generateUnusedName(c.cache, GenerateBaseName(tp, o))
        named == [o EXCEPT !.name = name]
        m == MapPut(getMapByType(c.cache, tp), name, named)
    IN  ResultWith([c EXCEPT !.cache = setMapByType(@, tp, m),
                             !.hooks = Append(@, HookDelete(tp, name))],
                   ErrNone, named)

CacheAdd(c, tp, o) ==
    IF o.name # "" /\ objectExists(c.cache, o.name)
    THEN ResultWith(c, ErrAlreadyExists, o)
    ELSE LET name == IF o.name # "" THEN o.name
                     ELSE generateUnusedName(c.cache, GenerateBaseName(tp, o))
             named == [o EXCEPT !.name = name]
             m == MapPut(getMapByType(c.cache, tp), name, named)
         IN  ResultWith([c EXCEPT !.cache = setMapByType(@, tp, m),
                                  !.hooks = Append(@, HookDelete(tp, name))],
                        ErrNone, named)

CacheReplace(c, tp, o) ==
    LET m == getMapByType(c.cache, tp)
    IN  IF o.name \notin DOMAIN m THEN ResultWith(c, ErrNotFound, o)
        ELSE ResultWith([c EXCEPT !.cache = setMapByType(@, tp, MapPut(m, o.name, o)),
                                  !.hooks = Append(@, HookSet(tp, o.name, m[o.name]))],
                        ErrNone, o)

\* Delete that registers no rollback hook
CacheDeleteNoHook(c, tp, name) ==
    LET m == getMapByType(c.cache, tp)
    IN  IF name \notin DOMAIN m THEN Result(c, ErrNotFound)
        ELSE ResultWith([c EXCEPT !.cache = setMapByType(@, tp, MapDelete(m, name))],
                        ErrNone, m[name])

CacheDelete(c, tp, name) ==
    LET m == getMapByType(c.cache, tp)
    IN  IF name \notin DOMAIN m THEN Result(c, ErrNotFound)
        ELSE ResultWith([c EXCEPT !.cache = setMapByType(@, tp, MapDelete(m, name)),
                                  !.hooks = Append(@, HookSet(tp, name, m[name]))],
                        ErrNone, m[name])

GetTableIndexes(cc, tableName) ==
    {n \in DOMAIN cc.indexes : cc.indexes[n].table = tableName}

---------------------------------------------------------------------------
(* relationToDocument *)

tableInfoToDocument(ti) ==
    [name |-> ti.name, type |-> RelationTableType, namespace |-> ti.ns,
     sql |-> <<ti.name, ti.fcs>>, docid_sequence_name |-> ti.docid]

indexInfoToDocument(i) ==
    [name |-> i.name, type |-> RelationIndexType, namespace |-> i.ns,
     table_name |-> i.table, sql |-> <<i.name, i.table, i.paths>>,
     owner |-> IF i.owner.table # "" THEN i.owner ELSE NoOwner]

sequenceInfoToDocument(s) ==
    [name |-> s.name, type |-> RelationSequenceType, sql |-> <<s.name, s.start>>,
     owner |-> IF s.owner.table # "" THEN s.owner ELSE NoOwner]

relationToDocument(tp, o) ==
    CASE tp = RelationTableType -> tableInfoToDocument(o)
      [] tp = RelationIndexType -> indexInfoToDocument(o)
      [] tp = RelationSequenceType -> sequenceInfoToDocument(o)

---------------------------------------------------------------------------
(* Table and namespace operations on the catalog namespace *)

\* Table.Insert on the catalog table: the primary key is the name
TableInsert(tb, doc) ==
    IF doc.name \in DOMAIN tb THEN [tb |-> tb, err |-> "PRIMARY KEY"]
    ELSE [tb |-> MapPut(tb, doc.name, doc), err |-> ErrNone]

\* Table.Replace: Put under the same key
TableReplace(tb, key, doc) == [tb |-> MapPut(tb, key, doc), err |-> ErrNone]

\* Table.Delete: KeyNotFound when absent
TableDelete(tb, key) ==
    IF key \notin DOMAIN tb THEN [tb |-> tb, err |-> "ErrDocumentNotFound"]
    ELSE [tb |-> MapDelete(tb, key), err |-> ErrNone]

\* Namespace.Truncate
Truncate(c, ns) == Result([c EXCEPT !.data[ns] = {}], ErrNone)

(* CatalogStore *)

StoreInsert(c, tp, o) ==
    LET r == TableInsert(c.rows, relationToDocument(tp, o))
    IN  IF r.err = "PRIMARY KEY" THEN ResultWith(c, ErrAlreadyExists, o)
        ELSE ResultWith([c EXCEPT !.rows = r.tb], r.err, o)

StoreReplace(c, name, tp, o) ==
    LET r == TableReplace(c.rows, name, relationToDocument(tp, o))
    IN  ResultWith([c EXCEPT !.rows = r.tb], r.err, o)

StoreDelete(c, name) ==
    LET r == TableDelete(c.rows, name)
    IN  Result([c EXCEPT !.rows = r.tb], r.err)

---------------------------------------------------------------------------
(* Sequences *)

\* Sequence.Init: the sequence gets its row in the sequence table, no value yet
SequenceInit(c, seq) ==
    IF seq.name \in DOMAIN c.seqTable THEN Result(c, "PRIMARY KEY")
    ELSE Result([c EXCEPT !.seqTable = MapPut(@, seq.name, NoValue)], ErrNone)

\* Sequence.Drop: the row leaves the sequence table
SequenceDrop(c, seq) ==
    IF seq.name \notin DOMAIN c.seqTable THEN Result(c, ErrNotFound)
    ELSE Result([c EXCEPT !.seqTable = MapDelete(@, seq.name)], ErrNone)

\* Sequence.Next: read, increment, write, return the new value
SequenceNext(c, seq) ==
    LET cur == c.seqTable[seq.name]
        v == IF cur = NoValue THEN seq.start ELSE cur + 1
    IN  [c |-> [c EXCEPT !.seqTable[seq.name] = v], err |-> ErrNone, v |-> v]

generateStoreName(c) ==
    IF StoreSequence \notin DOMAIN c.cache.sequences
    THEN [c |-> c, err |-> ErrNotFound, v |-> 0]
    ELSE SequenceNext(c, c.cache.sequences[StoreSequence])

CreateSequence(c, info) ==
    IF info.name = "" /\ info.owner.table = "" THEN Result(c, ErrNameRequired)
    ELSE LET r1 == CacheAdd(c, RelationSequenceType, info)
         IN  IF r1.err # ErrNone THEN r1
             ELSE LET r2 == StoreInsert(r1.c, RelationSequenceType, r1.o)
                  IN  IF r2.err # ErrNone THEN r2
                      ELSE ResultWith(SequenceInit(r2.c, r1.o).c,
                                      SequenceInit(r2.c, r1.o).err, r1.o)

DropSequence(c, name) ==
    LET r1 == CacheDelete(c, RelationSequenceType, name)
    IN  IF r1.err # ErrNone THEN r1
        ELSE LET r2 == SequenceDrop(r1.c, r1.o)
             IN  IF r2.err # ErrNone THEN r2
                 ELSE StoreDelete(r2.c, name)

\* ensureSequenceExists that returns whatever CreateSequence returns
ensureSequenceExistsStrict(c, seq) == CreateSequence(c, seq)

ensureSequenceExists(c, seq) ==
    LET r == CreateSequence(c, seq)
    IN  IF r.err \in {ErrNone, "PRIMARY KEY", ErrAlreadyExists}
        THEN Result(r.c, ErrNone) ELSE r

StoreSequenceInfo ==
    [name |-> StoreSequence, start |-> StoreSeqStart,
     owner |-> [table |-> CatalogTableName, paths |-> <<>>]]

CatalogInit(c) == ensureSequenceExists(c, StoreSequenceInfo)

---------------------------------------------------------------------------
(* Tables *)

CreateTable(c, tableName, info0) ==
    LET info == [info0 EXCEPT !.name = tableName]
    IN  IF info.name = "" THEN Result(c, ErrNameRequired)
        ELSE IF tableName \in DOMAIN c.cache.tables THEN Result(c, ErrAlreadyExists)
        ELSE LET g == IF info.ns = 0 THEN generateStoreName(c)
                      ELSE [c |-> c, err |-> ErrNone, v |-> info.ns]
             IN  IF g.err # ErrNone THEN Result(g.c, g.err)
                 ELSE LET ti == [info EXCEPT !.ns = g.v]
                          r1 == StoreInsert(g.c, RelationTableType, ti)
                      IN  IF r1.err # ErrNone THEN r1
                          ELSE CacheAdd(r1.c, RelationTableType, ti)

\* dropIndex that leaves the namespace of the index as it is
dropIndexNoTruncate(c, info) == StoreDelete(c, info.name)

\* Catalog.dropIndex
dropIndex(c, info) ==
    LET r1 == Truncate(c, info.ns)
    IN  IF r1.err # ErrNone THEN r1
        ELSE StoreDelete(r1.c, info.name)

\* the body of the index loop of DropTable, over the indexes in iteration order
RECURSIVE DropTableIndexes(_, _)
DropTableIndexes(c, order) ==
    IF order = <<>> THEN Result(c, ErrNone)
    ELSE LET idx == c.cache.indexes[Head(order)]
             r1 == CacheDelete(c, RelationIndexType, idx.name)
         IN  IF r1.err # ErrNone THEN r1
             ELSE LET r2 == dropIndex(r1.c, idx)
                  IN  IF r2.err # ErrNone THEN r2
                      ELSE DropTableIndexes(r2.c, Tail(order))

\* order: the order in which the map iteration of GetTableIndexes yields the indexes
DropTable(c, tableName, order) ==
    IF tableName \notin DOMAIN c.cache.tables THEN Result(c, ErrNotFound)
    ELSE LET ti == c.cache.tables[tableName]
         IN  IF ti.ro THEN Result(c, ErrRefused)
             ELSE LET r1 == DropTableIndexes(c, order)
                  IN  IF r1.err # ErrNone THEN r1
                      ELSE LET r2 == CacheDelete(r1.c, RelationTableType, tableName)
                           IN  IF r2.err # ErrNone THEN r2
                               ELSE LET r3 == StoreDelete(r2.c, tableName)
                                    IN  IF r3.err # ErrNone THEN r3
                                        ELSE Truncate(r3.c, ti.ns)

---------------------------------------------------------------------------
(* Indexes *)

\* CreateIndex that allocates no namespace
CreateIndexNoNamespace(c, info) ==
    IF info.table \notin DOMAIN c.cache.tables THEN Result(c, ErrNotFound)
    ELSE LET r1 == CacheAdd(c, RelationIndexType, info)
         IN  IF r1.err # ErrNone THEN r1
             ELSE StoreInsert(r1.c, RelationIndexType, r1.o)

CreateIndex(c, info) ==
    IF info.table \notin DOMAIN c.cache.tables THEN Result(c, ErrNotFound)
    ELSE LET g == generateStoreName(c)
         IN  IF g.err # ErrNone THEN Result(g.c, g.err)
             ELSE LET r1 == CacheAdd(g.c, RelationIndexType, [info EXCEPT !.ns = g.v])
                  IN  IF r1.err # ErrNone THEN r1
                      ELSE StoreInsert(r1.c, RelationIndexType, r1.o)

\* DropIndex without the test of the owner
DropIndexUnguarded(c, name) ==
    IF name \notin DOMAIN c.cache.indexes THEN Result(c, ErrNotFound)
    ELSE LET info == c.cache.indexes[name]
             r1 == CacheDelete(c, RelationIndexType, name)
         IN  IF r1.err # ErrNone THEN r1
             ELSE dropIndex(r1.c, info)

DropIndex(c, name) ==
    IF name \notin DOMAIN c.cache.indexes THEN Result(c, ErrNotFound)
    ELSE LET info == c.cache.indexes[name]
         IN  IF Len(info.owner.paths) > 0 THEN Result(c, ErrRefused)
             ELSE LET r1 == CacheDelete(c, RelationIndexType, name)
                  IN  IF r1.err # ErrNone THEN r1
                      ELSE dropIndex(r1.c, info)

---------------------------------------------------------------------------
(* ALTER TABLE *)

\* FieldConstraints.Add: one constraint per path
FieldConstraintsAdd(fcs, fc) ==
    IF \E i \in 1..Len(fcs) : fcs[i] = fc THEN [fcs |-> fcs, err |-> ErrAlreadyExists]
    ELSE [fcs |-> Append(fcs, fc), err |-> ErrNone]

\* TableConstraints.Merge: fails when the constraints to merge conflict with the table's
TableConstraintsMerge(tcs) == IF tcs = "conflict" THEN ErrRefused ELSE ErrNone

\* AddFieldConstraint that adds to the cached table info before it merges
AddFieldConstraintInPlace(c, tableName, fc, tcs) ==
    IF tableName \notin DOMAIN c.cache.tables THEN Result(c, ErrNotFound)
    ELSE LET ti == c.cache.tables[tableName]
             a == IF fc # "" THEN FieldConstraintsAdd(ti.fcs, fc)
                  ELSE [fcs |-> ti.fcs, err |-> ErrNone]
             m == TableConstraintsMerge(tcs)
             clone == [ti EXCEPT !.fcs = a.fcs]
         IN  IF a.err # ErrNone THEN Result(c, a.err)
             ELSE LET r1 == CacheReplace(c, RelationTableType, clone)
                  IN  IF m # ErrNone THEN Result(r1.c, m)
                      ELSE IF r1.err # ErrNone THEN r1
                      ELSE StoreReplace(r1.c, tableName, RelationTableType, clone)

\* fc = "" stands for a nil field constraint, tcs = "" for no table constraint
AddFieldConstraint(c, tableName, fc, tcs) ==
    IF tableName \notin DOMAIN c.cache.tables THEN Result(c, ErrNotFound)
    ELSE LET ti == c.cache.tables[tableName]
             a == IF fc # "" THEN FieldConstraintsAdd(ti.fcs, fc)
                  ELSE [fcs |-> ti.fcs, err |-> ErrNone]
             m == TableConstraintsMerge(tcs)
             clone == [ti EXCEPT !.fcs = a.fcs]
         IN  IF a.err # ErrNone THEN Result(c, a.err)
             ELSE IF m # ErrNone THEN Result(c, m)
             ELSE LET r1 == CacheReplace(c, RelationTableType, clone)
                  IN  IF r1.err # ErrNone THEN r1
                      ELSE StoreReplace(r1.c, tableName, RelationTableType, clone)

\* the index loop of RenameTable adding the clones without the new table name
RECURSIVE RenameTableIndexesKeepTable(_, _, _)
RenameTableIndexesKeepTable(c, order, newName) ==
    IF order = <<>> THEN Result(c, ErrNone)
    ELSE LET idx == c.cache.indexes[Head(order)]
             r1 == CacheDelete(c, RelationIndexType, idx.name)
         IN  IF r1.err # ErrNone THEN r1
             ELSE LET r2 == CacheAdd(r1.c, RelationIndexType, r1.o)
                  IN  IF r2.err # ErrNone THEN r2
                      ELSE LET r3 == StoreReplace(r2.c, idx.name, RelationIndexType, idx)
                           IN  IF r3.err # ErrNone THEN r3
                               ELSE RenameTableIndexesKeepTable(r3.c, Tail(order), newName)

\* the body of the index loop of RenameTable
RECURSIVE RenameTableIndexes(_, _, _)
RenameTableIndexes(c, order, newName) ==
    IF order = <<>> THEN Result(c, ErrNone)
    ELSE LET idx == c.cache.indexes[Head(order)]
             r1 == CacheDelete(c, RelationIndexType, idx.name)
         IN  IF r1.err # ErrNone THEN r1
             ELSE LET idxClone == [r1.o EXCEPT !.table = newName]
                      r2 == CacheAdd(r1.c, RelationIndexType, idxClone)
                  IN  IF r2.err # ErrNone THEN r2
                      ELSE LET r3 == StoreReplace(r2.c, idx.name, RelationIndexType, idx)
                           IN  IF r3.err # ErrNone THEN r3
                               ELSE RenameTableIndexes(r3.c, Tail(order), newName)

\* the body of the sequence loop of RenameTable
RECURSIVE RenameTableSequences(_, _, _, _)
RenameTableSequences(c, order, oldName, newName) ==
    IF order = <<>> THEN Result(c, ErrNone)
    ELSE LET seqName == Head(order)
         IN  IF seqName \notin DOMAIN c.cache.sequences THEN Result(c, ErrNotFound)
             ELSE LET seq == c.cache.sequences[seqName]
                  IN  IF seq.owner.table # oldName
                      THEN RenameTableSequences(c, Tail(order), oldName, newName)
                      ELSE LET r1 == CacheDelete(c, RelationSequenceType, seqName)
                               clone == [seq EXCEPT !.owner.table = newName]
                           IN  IF r1.err # ErrNone THEN r1
                               ELSE LET r2 == CacheAdd(r1.c, RelationSequenceType, clone)
                                    IN  IF r2.err # ErrNone THEN r2
                                        ELSE LET r3 == StoreReplace(r2.c, seqName,
                                                           RelationSequenceType, clone)
                                             IN  IF r3.err # ErrNone THEN r3
                                                 ELSE RenameTableSequences(r3.c, Tail(order),
                                                                           oldName, newName)

\* idxOrder: the map iteration order of GetTableIndexes(oldName);
\* seqOrder: the list ListSequences returns
RenameTable(c, oldName, newName, idxOrder, seqOrder) ==
    LET r0 == StoreDelete(c, oldName)
    IN  IF r0.err = "ErrDocumentNotFound" THEN Result(r0.c, ErrNotFound)
        ELSE IF r0.err # ErrNone THEN r0
        ELSE LET r1 == CacheDelete(r0.c, RelationTableType, oldName)
             IN  IF r1.err # ErrNone THEN r1
                 ELSE LET clone == [r1.o EXCEPT !.name = newName]
                          r2 == StoreInsert(r1.c, RelationTableType, clone)
                      IN  IF r2.err # ErrNone THEN r2
                          ELSE LET r3 == CacheAdd(r2.c, RelationTableType, clone)
                               IN  IF r3.err # ErrNone THEN r3
                                   ELSE LET r4 == RenameTableIndexes(r3.c, idxOrder, newName)
                                        IN  IF r4.err # ErrNone THEN r4
                                            ELSE RenameTableSequences(r4.c, seqOrder,
                                                                      oldName, newName)

---------------------------------------------------------------------------
(* Documents *)

\* Table.Insert of a document with key k: the row, then one entry per index of the table
InsertDocument(c, tableName, k) ==
    IF tableName \notin DOMAIN c.cache.tables THEN Result(c, ErrNotFound)
    ELSE LET nss == {c.cache.tables[tableName].ns} \cup
                    {c.cache.indexes[i].ns : i \in GetTableIndexes(c.cache, tableName)}
         IN  Result([c EXCEPT !.data = [n \in DOMAIN @ |->
                                           IF n \in nss THEN @[n] \cup {k} ELSE @[n]]],
                    ErrNone)

---------------------------------------------------------------------------
(* Byte strings *)

\* a nil slice, told from the empty one by a mark that is no byte; it has
\* length 0 like the empty one
NilBytes == <<-1>>
Bytes(b) == IF b = NilBytes THEN <<>> ELSE b
BytesLen(b) == Len(Bytes(b))

\* bytes.Compare: -1, 0 or 1
RECURSIVE BytesCompare(_, _)
BytesCompare(a, b) ==
    IF a = <<>> /\ b = <<>> THEN 0
    ELSE IF a = <<>> THEN -1
    ELSE IF b = <<>> THEN 1
    ELSE IF Head(a) < Head(b) THEN -1
    ELSE IF Head(a) > Head(b) THEN 1
    ELSE BytesCompare(Tail(a), Tail(b))

\* the byte strings of S in ascending order
RECURSIVE SortedBytes(_)
SortedBytes(S) ==
    IF S = {} THEN <<>>
    ELSE LET m == CHOOSE x \in S : \A y \in S : BytesCompare(x, y) <= 0
         IN  <<m>> \o SortedBytes(S \ {m})

---------------------------------------------------------------------------
(* KV session and namespaces *)

ErrKeyNotFound == "KeyNotFound"
ErrInvalidArgument == "InvalidArgument"
ErrReadOnly == "ReadOnly"

\* namespace ids of the sessions: they differ in the third byte of the prefix
\* and agree in the last
KvIds == {10, 266}
KvKeys == {NilBytes, <<>>, <<102>>, <<102, 111>>}
KvValues == {NilBytes, <<>>, <<70>>, <<66>>}

\* the prefix only from the low byte of the id
PrefixLowByte(id) == <<0, 0, 0, id % 256>>

\* prefix(id): the id as a big-endian u32
Prefix(id) ==
    <<(id \div 16777216) % 256, (id \div 65536) % 256, (id \div 256) % 256, id % 256>>

BuildKey(id, k) == Prefix(id) \o Bytes(k)

HasPrefix(key, id) == Len(key) >= 4 /\ SubSeq(key, 1, 4) = Prefix(id)

KvResult(s, err, res) == [s |-> s, err |-> err, res |-> res]

\* Put that writes whatever it is given
NsPutUnchecked(s, ro, id, k, v) ==
    IF ro THEN KvResult(s, ErrReadOnly, <<>>)
    ELSE KvResult(MapPut(s, BuildKey(id, k), Bytes(v)), ErrNone, <<>>)

\* Namespace.Put
NsPut(s, ro, id, k, v) ==
    IF ro THEN KvResult(s, ErrReadOnly, <<>>)
    ELSE IF BytesLen(k) = 0 \/ BytesLen(v) = 0 THEN KvResult(s, ErrInvalidArgument, <<>>)
    ELSE KvResult(MapPut(s, BuildKey(id, k), Bytes(v)), ErrNone, <<>>)

\* Namespace.Get
NsGet(s, id, k) ==
    IF BuildKey(id, k) \notin DOMAIN s THEN KvResult(s, ErrKeyNotFound, <<>>)
    ELSE KvResult(s, ErrNone, s[BuildKey(id, k)])

\* Delete that does not look at the session's mode
NsDeleteWritable(s, ro, id, k) ==
    IF BuildKey(id, k) \notin DOMAIN s THEN KvResult(s, ErrKeyNotFound, <<>>)
    ELSE KvResult(MapDelete(s, BuildKey(id, k)), ErrNone, <<>>)

\* Namespace.Delete
NsDelete(s, ro, id, k) ==
    IF ro THEN KvResult(s, ErrReadOnly, <<>>)
    ELSE IF BuildKey(id, k) \notin DOMAIN s THEN KvResult(s, ErrKeyNotFound, <<>>)
    ELSE KvResult(MapDelete(s, BuildKey(id, k)), ErrNone, <<>>)

\* Namespace.Truncate: deletes every key with the prefix of the namespace
NsTruncate(s, ro, id) ==
    IF ro THEN KvResult(s, ErrReadOnly, <<>>)
    ELSE KvResult([key \in {x \in DOMAIN s : ~HasPrefix(x, id)} |-> s[key]], ErrNone, <<>>)

\* Namespace.Iterator(nil), First to the end: the raw keys, in order
NsIterate(s, id) ==
    KvResult(s, ErrNone, SortedBytes({key \in DOMAIN s : HasPrefix(key, id)}))

KvNote(op, id, k, v, r) ==
    [op |-> op, id |-> id, k |-> k, v |-> v, err |-> r.err, res |-> r.res]

KvCalled(r, op, id, k, v) ==
    /\ pdb' = r.s
    /\ kvLast' = KvNote(op, id, k, v, r)
    /\ UNCHANGED <<readOnly, notKvVars>>

\* kv.NewSession(pdb, readOnly) on the same store
NewSession ==
    \E ro \in BOOLEAN :
        /\ readOnly' = ro
        /\ kvLast' = KvNote("NewSession", 0, NilBytes, NilBytes, KvResult(pdb, ErrNone, <<>>))
        /\ UNCHANGED <<pdb, notKvVars>>

KvPut ==
    \E id \in KvIds, k \in KvKeys, v \in KvValues :
        KvCalled(NsPut(pdb, readOnly, id, k, v), "Put", id, k, v)

KvGet ==
    \E id \in KvIds, k \in KvKeys :
        KvCalled(NsGet(pdb, id, k), "Get", id, k, NilBytes)

KvDelete ==
    \E id \in KvIds, k \in KvKeys :
        KvCalled(NsDelete(pdb, readOnly, id, k), "Delete", id, k, NilBytes)

KvTruncate ==
    \E id \in KvIds :
        KvCalled(NsTruncate(pdb, readOnly, id), "Truncate", id, NilBytes, NilBytes)

KvIterate ==
    \E id \in KvIds :
        KvCalled(NsIterate(pdb, id), "Iterate", id, NilBytes, NilBytes)

\* a new store and a writable session on it
KvIdle ==
    /\ pdb = EmptyMap
    /\ readOnly = FALSE
    /\ kvLast = KvNote("Open", 0, NilBytes, NilBytes, KvResult(EmptyMap, ErrNone, <<>>))

---------------------------------------------------------------------------
(* Values and keys (internal/tree/key.go) *)

\* types.ValueType, the tag byte of a value
NullValue == 5
BoolValue == 16
IntegerValue == 32
DoubleValue == 48
TextValue == 64
BlobValue == 80
ArrayValue == 96
\* encoding: the tags of the two booleans and the end of an array
FalseTag == 16
TrueTag == 17
ArrayEnd == 30

\* A value is [t |-> type, v |-> payload]. The payload of a boolean is <<0>> or
\* <<1>>; of an integer its four 16-bit limbs, the first one signed; of a
\* double its sign bit and the four limbs of its 63 other bits; of a text or a
\* blob its bytes.
Val(t, v) == [t |-> t, v |-> v]

\* big-endian bytes of a 16-bit limb
Limb(x) == <<x \div 256, x % 256>>
Limbs(ls) == Limb(ls[1]) \o Limb(ls[2]) \o Limb(ls[3]) \o Limb(ls[4])

\* the integer with its sign bit flipped, big-endian
EncodeInt64(ls) == Limbs(<<ls[1] + 32768, ls[2], ls[3], ls[4]>>)

\* the double: the sign bit set for a non-negative one, every bit inverted
\* for a negative one
EncodeFloat64(sm) ==
    IF sm[1] = 0
    THEN Limbs(<<sm[2] + 32768, sm[3], sm[4], sm[5]>>)
    ELSE Limbs(<<65535 - (sm[2] + 32768), 65535 - sm[3], 65535 - sm[4], 65535 - sm[5]>>)

\* the bytes with every zero byte followed by 0xFF, then the zero terminator
RECURSIVE Escape(_)
Escape(bs) ==
    IF bs = <<>> THEN <<>>
    ELSE (IF Head(bs) = 0 THEN <<0, 255>> ELSE <<Head(bs)>>) \o Escape(Tail(bs))

EncodeText(bs) == Escape(bs) \o <<0>>

\* encoding.EncodeValue, and the elements of an array one after the other
RECURSIVE EncodeValue(_), EncodeValues(_)
EncodeValue(x) ==
    IF x.t = NullValue THEN <<NullValue>>
    ELSE IF x.t = BoolValue THEN (IF x.v = <<1>> THEN <<TrueTag>> ELSE <<FalseTag>>)
    ELSE IF x.t = IntegerValue THEN <<IntegerValue>> \o EncodeInt64(x.v)
    ELSE IF x.t = DoubleValue THEN <<DoubleValue>> \o EncodeFloat64(x.v)
    ELSE IF x.t = TextValue THEN <<TextValue>> \o EncodeText(x.v)
    ELSE IF x.t = BlobValue THEN <<BlobValue>> \o EncodeText(x.v)
    ELSE <<ArrayValue>> \o EncodeValues(x.v) \o <<ArrayEnd>>

EncodeValues(vs) ==
    IF vs = <<>> THEN <<>> ELSE EncodeValue(Head(vs)) \o EncodeValues(Tail(vs))

KeyResult(key, err) == [key |-> key, err |-> err]
ErrNilValue == "cannot encode nil value"

\* NewKey cutting one byte more than the end of the array
NewKeyCutTwo(values) ==
    IF Len(values) = 0 THEN KeyResult(NilBytes, ErrNone)
    ELSE IF values[1].t # NullValue /\ values[1].v = NilBytes
         THEN KeyResult(NilBytes, ErrNilValue)
    ELSE LET key == EncodeValue(Val(ArrayValue, values))
         IN  KeyResult(SubSeq(key, 2, Len(key) - 2), ErrNone)

\* tree.NewKey
NewKey(values) ==
    IF Len(values) = 0 THEN KeyResult(NilBytes, ErrNone)
    ELSE IF values[1].t # NullValue /\ values[1].v = NilBytes
         THEN KeyResult(NilBytes, ErrNilValue)
    ELSE LET key == EncodeValue(Val(ArrayValue, values))
         IN  KeyResult(SubSeq(key, 2, Len(key) - 1), ErrNone)

\* tree.NewMinKeyForType, tree.NewMaxKeyForType
NewMinKeyForType(t) == <<t>>
NewMaxKeyForType(t) == <<t + 1>>

\* Keys.Less
Less(a, b) == BytesCompare(a, b) < 0

\* The values the keys are made of
Integers64 ==
    {<<-32768, 0, 0, 0>>, <<-1, 65535, 65535, 65280>>, <<-1, 65535, 65535, 65535>>,
     <<0, 0, 0, 0>>, <<0, 0, 0, 1>>, <<0, 0, 0, 256>>, <<0, 0, 1, 0>>,
     <<32767, 65535, 65535, 65535>>}
\* -2.0, -1.0, -0.0, 0.0, 1.0, the double after 1.0, 2.0
Doubles ==
    {<<1, 16384, 0, 0, 0>>, <<1, 16368, 0, 0, 0>>, <<1, 0, 0, 0, 0>>, <<0, 0, 0, 0, 0>>,
     <<0, 16368, 0, 0, 0>>, <<0, 16368, 0, 0, 1>>, <<0, 16384, 0, 0, 0>>}
Texts == {<<>>, <<97>>, <<97, 0>>, <<97, 1>>, <<97, 98>>, <<98>>}
Blobs == {<<>>, <<0>>, <<0, 255>>, <<255>>}

Values ==
    {Val(NullValue, <<>>)} \cup {Val(BoolValue, <<b>>) : b \in {0, 1}}
    \cup {Val(IntegerValue, v) : v \in Integers64}
    \cup {Val(DoubleValue, v) : v \in Doubles}
    \cup {Val(TextValue, v) : v \in Texts}
    \cup {Val(BlobValue, v) : v \in Blobs}

\* a text value whose V() is nil
NilText == Val(TextValue, NilBytes)

\* two values of the same kind
KindPairs == {p \in Values \X Values : p[1].t = p[2].t}

\* two tuples of one or two values, of the same kinds place by place; a nil
\* value only alone
TuplePairs ==
    {<<<<p[1]>>, <<p[2]>>>> : p \in KindPairs}
    \cup {<<<<p[1], q[1]>>, <<p[2], q[2]>>>> : p, q \in KindPairs}
    \cup {<<<<NilText>>, <<x>>>> : x \in {Val(TextValue, v) : v \in Texts}}

\* two tuples of values are given; NewKey is applied to both
NotEncoded == <<>>

EncodeKeys ==
    /\ keyOut = NotEncoded
    /\ keyOut' = <<NewKey(keyIn[1]), NewKey(keyIn[2])>>
    /\ UNCHANGED <<keyIn, notKeyVars>>

KeyIdle ==
    /\ keyIn = <<<<Val(NullValue, <<>>)>>, <<Val(NullValue, <<>>)>>>>
    /\ keyOut = NotEncoded

KeyInit ==
    /\ keyIn \in TuplePairs
    /\ keyOut = NotEncoded

---------------------------------------------------------------------------
(* Statements and their pipelines (statement/update.go, delete.go) *)

ErrUnsetPrimaryKey == "cannot unset primary key path"

\* one operator of a stream: its name and its argument (a table name, an
\* index name, a path, or the clause it evaluates), always as a sequence
Op(op, arg) == [op |-> op, arg |-> arg]

\* (Statement, error) of Prepare: the operators of the stream, first to last
PlanResult(ops, err) == [ops |-> ops, err |-> err]

\* s.Pipe(op(x)) for each x of xs, in order
PipeEach(op, xs) == [i \in 1 .. Len(xs) |-> Op(op, xs[i])]

\* each element as a sequence of one element
Wrap(xs) == [i \in 1 .. Len(xs) |-> <<xs[i]>>]

\* s.Pipe(op) when the clause is present
PipeIf(cond, op, arg) == IF cond THEN <<Op(op, arg)>> ELSE <<>>

\* document.NewPath(name): the path of one fragment
NewPath(name) == <<name>>

\* document.Path.IsEqual
IsEqual(p, q) == p = q

\* what Prepare reads of the catalog: whether the table is known, the paths
\* of its declared primary key (none: the key is the surrogate docid) and
\* the sorted names of its indexes
Context(known, pk, indexNames) == [known |-> known, pk |-> pk, indexNames |-> indexNames]

pkModifiedNever(pk, SetPairs) == FALSE

\* a SET pair whose path is a path of the primary key
pkModified(pk, SetPairs) ==
    \E i \in 1 .. Len(SetPairs) : \E j \in 1 .. Len(pk) : IsEqual(pk[j], SetPairs[i])

unsetsPrimaryKeyFirstField(pk, UnsetFields) ==
    \E j \in 1 .. Len(pk) : IsEqual(pk[j], NewPath(UnsetFields[1]))

\* a field of UNSET whose path is a path of the primary key
unsetsPrimaryKey(pk, UnsetFields) ==
    \E i \in 1 .. Len(UnsetFields) : \E j \in 1 .. Len(pk) :
        IsEqual(pk[j], NewPath(UnsetFields[i]))

UpdatePrepareInsertFirst(c, stmt) ==
    IF ~c.known THEN PlanResult(<<>>, ErrNotFound)
    ELSE IF stmt.SetPairs = <<>> /\ unsetsPrimaryKey(c.pk, stmt.UnsetFields)
    THEN PlanResult(<<>>, ErrUnsetPrimaryKey)
    ELSE PlanResult(
        <<Op("TableScan", <<stmt.TableName>>)>>
        \o PipeIf(stmt.WhereExpr, "DocsFilter", <<"where">>)
        \o (IF stmt.SetPairs # <<>> THEN PipeEach("PathsSet", stmt.SetPairs)
            ELSE PipeEach("PathsUnset", [i \in 1 .. Len(stmt.UnsetFields) |-> <<stmt.UnsetFields[i]>>]))
        \o <<Op("TableValidate", <<stmt.TableName>>)>>
        \o PipeEach("IndexInsert", [i \in 1 .. Len(c.indexNames) |-> <<c.indexNames[i]>>])
        \o (IF pkModified(c.pk, stmt.SetPairs)
            THEN <<Op("TableDelete", <<stmt.TableName>>), Op("TableInsert", <<stmt.TableName>>)>>
            ELSE <<Op("TableReplace", <<stmt.TableName>>)>>)
        \o PipeEach("IndexDelete", [i \in 1 .. Len(c.indexNames) |-> <<c.indexNames[i]>>]),
        ErrNone)

\* UpdateStmt.Prepare; a nil SetPairs or UnsetFields is the empty sequence
UpdatePrepare(c, stmt) ==
    IF ~c.known THEN PlanResult(<<>>, ErrNotFound)
    ELSE IF stmt.SetPairs = <<>> /\ unsetsPrimaryKey(c.pk, stmt.UnsetFields)
    THEN PlanResult(<<>>, ErrUnsetPrimaryKey)
    ELSE PlanResult(
        <<Op("TableScan", <<stmt.TableName>>)>>
        \o PipeIf(stmt.WhereExpr, "DocsFilter", <<"where">>)
        \o (IF stmt.SetPairs # <<>> THEN PipeEach("PathsSet", stmt.SetPairs)
            ELSE PipeEach("PathsUnset", [i \in 1 .. Len(stmt.UnsetFields) |-> <<stmt.UnsetFields[i]>>]))
        \o <<Op("TableValidate", <<stmt.TableName>>)>>
        \o PipeEach("IndexDelete", [i \in 1 .. Len(c.indexNames) |-> <<c.indexNames[i]>>])
        \o (IF pkModified(c.pk, stmt.SetPairs)
            THEN <<Op("TableDelete", <<stmt.TableName>>), Op("TableInsert", <<stmt.TableName>>)>>
            ELSE <<Op("TableReplace", <<stmt.TableName>>)>>)
        \o PipeEach("IndexInsert", [i \in 1 .. Len(c.indexNames) |-> <<c.indexNames[i]>>]),
        ErrNone)

DeletePrepareNoIndexDelete(c, stmt) ==
    PlanResult(
        <<Op("TableScan", <<stmt.TableName>>)>>
        \o PipeIf(stmt.WhereExpr, "DocsFilter", <<"where">>)
        \o <<Op("TableDelete", <<stmt.TableName>>)>>,
        ErrNone)

\* DeleteStmt.Prepare
DeletePrepare(c, stmt) ==
    PlanResult(
        <<Op("TableScan", <<stmt.TableName>>)>>
        \o PipeIf(stmt.WhereExpr, "DocsFilter", <<"where">>)
        \o PipeIf(stmt.OrderBy = "DESC", "DocsTempTreeSortReverse", <<"order">>)
        \o PipeIf(stmt.OrderBy = "ASC", "DocsTempTreeSort", <<"order">>)
        \o PipeIf(stmt.OffsetExpr, "DocsSkip", <<"offset">>)
        \o PipeIf(stmt.LimitExpr, "DocsTake", <<"limit">>)
        \o PipeEach("IndexDelete", [i \in 1 .. Len(c.indexNames) |-> <<c.indexNames[i]>>])
        \o <<Op("TableDelete", <<stmt.TableName>>)>>,
        ErrNone)

(* Inputs of Prepare *)

\* the paths of statements and primary keys
Paths == {<<"a">>, <<"b">>, <<"c">>, <<"a", "b">>}

FieldNames == {"a", "b", "c"}

\* the longest SET or UNSET list
MaxClause == 2

\* the non-empty sequences over S of at most MaxClause elements
Lists(S) == UNION {[1 .. n -> S] : n \in 1 .. MaxClause}

\* no declared key, a key of one field, of two fields, of a nested path
PrimaryKeys == {<<>>, <<<<"a">>>>, <<<<"a">>, <<"b">>>>, <<<<"a", "b">>>>}

IndexLists == {<<>>, <<"i">>, <<"i", "j">>}

Contexts ==
    {Context(TRUE, pk, ix) : pk \in PrimaryKeys, ix \in IndexLists}
    \cup {Context(FALSE, <<>>, <<>>)}

Stmt(kind, where, set, unset, order, offset, limit) ==
    [kind |-> kind, TableName |-> "t", WhereExpr |-> where, SetPairs |-> set,
     UnsetFields |-> unset, OrderBy |-> order, OffsetExpr |-> offset, LimitExpr |-> limit]

\* UPDATE has a SET clause or an UNSET clause, each of at least one element
UpdateStmts ==
    {Stmt("UPDATE", w, s, <<>>, "", FALSE, FALSE) : w \in BOOLEAN, s \in Lists(Paths)}
    \cup {Stmt("UPDATE", w, <<>>, u, "", FALSE, FALSE) : w \in BOOLEAN, u \in Lists(FieldNames)}

DeleteStmts ==
    {Stmt("DELETE", w, <<>>, <<>>, o, k, l) :
        w \in BOOLEAN, o \in {"", "ASC", "DESC"}, k \in BOOLEAN, l \in BOOLEAN}

NotPrepared == PlanResult(<<>>, "not prepared")

PrepareUpdate ==
    /\ planOut = NotPrepared
    /\ planIn.stmt.kind = "UPDATE"
    /\ planOut' = UpdatePrepare(planIn.c, planIn.stmt)
    /\ UNCHANGED <<planIn, notPlanVars>>

PrepareDelete ==
    /\ planOut = NotPrepared
    /\ planIn.stmt.kind = "DELETE"
    /\ planOut' = DeletePrepare(planIn.c, planIn.stmt)
    /\ UNCHANGED <<planIn, notPlanVars>>

PlanIdle ==
    /\ planIn = [c |-> Context(FALSE, <<>>, <<>>),
                 stmt |-> Stmt("DELETE", FALSE, <<>>, <<>>, "", FALSE, FALSE)]
    /\ planOut = NotPrepared

PlanInit ==
    /\ planIn \in [c : Contexts, stmt : UpdateStmts \cup DeleteStmts]
    /\ planOut = NotPrepared

---------------------------------------------------------------------------
(* Rows and index entries: the pipelines run (stream/table.go, statement/reindex.go) *)

\* the value of a path that the document does not have
NoField == 0

\* the values that statements write
DmlValues == {1, 2}

\* docids that the sequence of a table without declared key gives out
MaxDocid == 2

\* table t has the declared primary key k; table u has none, its key is the docid
TableInfoOf == [t |-> [pk |-> <<<<"k">>>>], u |-> [pk |-> <<>>]]

\* i on t(a, b), j unique on t(b), h on u(a)
IndexInfoOf ==
    [h |-> [TableName |-> "u", Paths |-> <<<<"a">>>>, Unique |-> FALSE],
     i |-> [TableName |-> "t", Paths |-> <<<<"a">>, <<"b">>>>, Unique |-> FALSE],
     j |-> [TableName |-> "t", Paths |-> <<<<"b">>>>, Unique |-> TRUE]]

\* catalogCache.ListObjects(RelationIndexType): the names, sorted
ListObjectsIndex == <<"h", "i", "j">>

\* Catalog.ListIndexes(tableName) for a table name: the names of its indexes, sorted
ListIndexes(tableName) ==
    SelectSeq(ListObjectsIndex, LAMBDA n : IndexInfoOf[n].TableName = tableName)

ContextOf(tableName) ==
    Context(TRUE, TableInfoOf[tableName].pk, ListIndexes(tableName))

\* the elements of a set of numbers, ascending
RECURSIVE Ascend(_)
Ascend(S) ==
    IF S = {} THEN <<>>
    ELSE LET m == CHOOSE x \in S : \A y \in S : x <= y
         IN  <<m>> \o Ascend(S \ {m})

\* the values of a document at the paths of an index
ValuesAt(doc, paths) == [n \in 1 .. Len(paths) |-> doc[paths[n][1]]]

\* the environment of a row (its key under DocPKKey, its document) with the
\* tables and indexes of the transaction and the error that stopped the stream
Env(tables, indexes) ==
    [key |-> 0, doc |-> [k |-> NoField, a |-> NoField, b |-> NoField],
     tbl |-> tables, idx |-> indexes, err |-> ErrNone, seen |-> <<>>]

Fail(r, err) == [r EXCEPT !.err = err]

\* Index.Set: a unique index refuses values it already holds
IndexSet(r, name, values) ==
    IF IndexInfoOf[name].Unique /\ \E e \in r.idx[name] : e[1] = values
    THEN Fail(r, "UNIQUE")
    ELSE [r EXCEPT !.idx[name] = @ \cup {<<values, r.key>>}]

\* IndexDelete: removes the entry of the row as the table holds it under DocPKKey
IndexDeleteOfRow(r, name) ==
    LET docs == r.tbl[IndexInfoOf[name].TableName].rows
    IN  IF r.key \notin DOMAIN docs THEN Fail(r, ErrKeyNotFound)
        ELSE [r EXCEPT !.idx[name] =
                  @ \ {<<ValuesAt(docs[r.key], IndexInfoOf[name].Paths), r.key>>}]

\* Table.Insert: the key is the value of the declared key path, or the next docid
TableInsertRow(r, name) ==
    LET t == r.tbl[name]
        pk == TableInfoOf[name].pk
        key == IF pk = <<>> THEN t.seq + 1 ELSE r.doc[pk[1][1]]
    IN  IF key = NoField THEN Fail(r, "NOT NULL")
        ELSE IF key \in DOMAIN t.rows THEN Fail(r, "PRIMARY KEY")
        ELSE [r EXCEPT !.tbl[name] = [rows |-> MapPut(t.rows, key, r.doc),
                                      seq |-> IF pk = <<>> THEN key ELSE t.seq],
                       !.key = key]

\* TableReplaceOperator: Table.Replace under DocPKKey
TableReplaceRow(r, name) ==
    IF r.key \notin DOMAIN r.tbl[name].rows THEN Fail(r, ErrKeyNotFound)
    ELSE [r EXCEPT !.tbl[name].rows = MapPut(@, r.key, r.doc)]

\* TableDeleteOperator: Table.Delete under DocPKKey
TableDeleteRow(r, name) ==
    IF r.key \notin DOMAIN r.tbl[name].rows THEN Fail(r, ErrKeyNotFound)
    ELSE [r EXCEPT !.tbl[name].rows = MapDelete(@, r.key)]

\* one operator of the pipeline applied to the row of r; the expressions of
\* SET all give v; the operators that choose the rows act in RunRows
Step(o, r, v) ==
    CASE o.op = "PathsSet" -> [r EXCEPT !.doc[o.arg[1]] = v]
      [] o.op = "PathsUnset" -> [r EXCEPT !.doc[o.arg[1]] = NoField]
      [] o.op = "IndexDelete" -> IndexDeleteOfRow(r, o.arg[1])
      [] o.op = "TableDelete" -> TableDeleteRow(r, o.arg[1])
      [] o.op = "TableInsert" -> TableInsertRow(r, o.arg[1])
      [] o.op = "TableReplace" -> TableReplaceRow(r, o.arg[1])
      [] o.op = "IndexInsert" ->
            IndexSet(r, o.arg[1], ValuesAt(r.doc, IndexInfoOf[o.arg[1]].Paths))
      [] OTHER -> r

\* a row goes through the operators after the scan, until one fails
RECURSIVE RunRow(_, _, _)
RunRow(ops, r, v) ==
    IF ops = <<>> \/ r.err # ErrNone THEN r
    ELSE RunRow(Tail(ops), Step(Head(ops), r, v), v)

\* an iterator that reads the batch as it is written: the keys after the
\* one it stands on, those the pipeline has just inserted included
IteratorNextLive(keys, before, after) ==
    Ascend({x \in {keys[n] : n \in 2 .. Len(keys)} \cup (DOMAIN after \ DOMAIN before) :
                x > Head(keys)})

\* the iterator of the batch after the pipeline wrote the rows of a table
\* (from before to after): it goes on with the keys that were there when it
\* was opened
IteratorNext(keys, before, after) == Tail(keys)

\* TableScanOperator.Iterate: the rows of the keys, in key order, each handed
\* to the rest of the pipeline before the next is read
RECURSIVE RunRows(_, _, _, _)
RunRows(ops, keys, r, v) ==
    IF keys = <<>> \/ r.err # ErrNone THEN r
    ELSE LET name == ops[1].arg[1]
             docs == r.tbl[name].rows
         IN  IF Head(keys) \notin DOMAIN docs
             THEN RunRows(ops, Tail(keys), r, v)
             ELSE LET out == RunRow(Tail(ops), [r EXCEPT !.key = Head(keys),
                                                         !.doc = docs[Head(keys)],
                                                         !.seen = Append(@, Head(keys))], v)
                  IN  RunRows(ops, IteratorNext(keys, docs, out.tbl[name].rows), out, v)

\* the index is emptied
IndexTruncate(r, name) == [r EXCEPT !.idx[name] = {}]

ReIndexNames(name) ==
    IF name = "" THEN ListObjectsIndex
    ELSE IF name \in DOMAIN TableInfoOf THEN ListIndexes(name)
    ELSE <<name>>

ReIndexPrepareKeep(r, names) ==
    IF \E n \in 1 .. Len(names) : names[n] \notin DOMAIN IndexInfoOf
    THEN Fail(r, ErrNotFound)
    ELSE r

\* ReIndexStmt.Prepare, the loop over the index names: each index is looked
\* up and truncated
RECURSIVE ReIndexPrepare(_, _)
ReIndexPrepare(r, names) ==
    IF names = <<>> THEN r
    ELSE IF Head(names) \notin DOMAIN IndexInfoOf THEN Fail(r, ErrNotFound)
    ELSE ReIndexPrepare(IndexTruncate(r, Head(names)), Tail(names))

\* stream.Concat of TableScan(info.TableName) | IndexInsert(info.IndexName)
RECURSIVE ReIndexRun(_, _)
ReIndexRun(r, names) ==
    IF names = <<>> \/ r.err # ErrNone THEN r
    ELSE LET table == IndexInfoOf[Head(names)].TableName
         IN  ReIndexRun(RunRows(<<Op("TableScan", <<table>>),
                                   Op("IndexInsert", <<Head(names)>>)>>,
                                Ascend(DOMAIN r.tbl[table].rows), r, NoField),
                        Tail(names))

(* Statements *)

\* the last statement, what it named and how it ended
DmlNote(op, name, form, err) == [op |-> op, name |-> name, form |-> form, err |-> err]

\* the scan gave the pipeline each of the rows that WHERE let through when
\* the statement started (sel), once, in key order, and no other row
ScannedOnce(r, sel) == r.seen = Ascend(sel)

\* the rows after a statement (after) are those before it (before) with the
\* rows of sel deleted, or with field set to v in each of them (under its
\* key when the row is replaced), as many as before; the other rows are as
\* they were
RowsKept(op, form, before, after, sel, field, v) ==
    /\ sel \subseteq DOMAIN before
    /\ \A x \in DOMAIN before \ sel : x \in DOMAIN after /\ after[x] = before[x]
    /\ op = "DELETE" => DOMAIN after = DOMAIN before \ sel
    /\ op = "UPDATE" =>
        /\ Cardinality(DOMAIN after) = Cardinality(DOMAIN before)
        /\ \A x \in sel : \E y \in DOMAIN after :
            /\ after[y] = [before[x] EXCEPT ![field] = v]
            /\ form = "replace" => y = x

\* the pipeline inserted a row under a key greater than that of a row of sel
ScannedAhead(before, after, sel) ==
    \E x \in sel : \E y \in DOMAIN after \ DOMAIN before : y > x

\* what is kept of the scan of a statement
Scanned(once, kept, ahead) == [once |-> once, kept |-> kept, ahead |-> ahead]

\* the note on an UPDATE or DELETE that ended without error; nothing is
\* noted of the other statements
ScannedBy(r, op, name, form, sel, field, v) ==
    IF op \in {"UPDATE", "DELETE"} /\ r.err = ErrNone
    THEN Scanned(ScannedOnce(r, sel),
                 RowsKept(op, form, tabs[name].rows, r.tbl[name].rows, sel, field, v),
                 ScannedAhead(tabs[name].rows, r.tbl[name].rows, sel))
    ELSE Scanned(TRUE, TRUE, FALSE)

Wrote(r, op, name, form, sel, field, v) ==
    /\ tabs' = r.tbl
    /\ entries' = r.idx
    /\ dmlLast' = DmlNote(op, name, form, r.err)
    /\ scanned' = ScannedBy(r, op, name, form, sel, field, v)
    /\ UNCHANGED notDmlVars

\* the documents of INSERT
DmlDocs(tableName) ==
    IF tableName = "t"
    THEN {[k |-> x, a |-> y, b |-> z] : x \in DmlValues, y \in DmlValues, z \in DmlValues}
    ELSE {[k |-> NoField, a |-> y, b |-> NoField] : y \in DmlValues}

\* the UPDATE statements: SET or UNSET of one field, with or without WHERE
DmlUpdates(tableName) ==
    {[s EXCEPT !.TableName = tableName] : s \in
        {Stmt("UPDATE", w, <<<<f>>>>, <<>>, "", FALSE, FALSE) :
            w \in BOOLEAN, f \in IF tableName = "t" THEN {"k", "a", "b"} ELSE {"a"}}
        \cup {Stmt("UPDATE", w, <<>>, <<f>>, "", FALSE, FALSE) :
            w \in BOOLEAN, f \in IF tableName = "t" THEN {"k", "a"} ELSE {"a"}}}

\* INSERT of one document: Table.Insert, then the entry of each index
DoInsert ==
    /\ dmlLast.err = ErrNone
    /\ \E name \in DOMAIN TableInfoOf : \E doc \in DmlDocs(name) :
        /\ TableInfoOf[name].pk = <<>> => tabs[name].seq < MaxDocid
        /\ Wrote(RunRow(<<Op("TableInsert", <<name>>)>>
                        \o PipeEach("IndexInsert", Wrap(ListIndexes(name))),
                        [Env(tabs, entries) EXCEPT !.doc = doc], NoField),
                 "INSERT", name, "", {}, "", NoField)

\* UPDATE: Prepare, then the pipeline over the rows that WHERE lets through
DoUpdate ==
    /\ dmlLast.err = ErrNone
    /\ \E name \in DOMAIN TableInfoOf : \E stmt \in DmlUpdates(name) : \E v \in DmlValues :
       \E sel \in SUBSET DOMAIN tabs[name].rows :
        /\ ~stmt.WhereExpr => sel = DOMAIN tabs[name].rows
        /\ LET p == UpdatePrepare(ContextOf(name), stmt)
           IN  IF p.err # ErrNone
               THEN Wrote(Fail(Env(tabs, entries), p.err), "UPDATE", name, "", sel, "", NoField)
               ELSE Wrote(RunRows(p.ops, Ascend(sel), Env(tabs, entries), v), "UPDATE", name,
                          IF \E n \in 1 .. Len(p.ops) : p.ops[n].op = "TableInsert"
                          THEN "delete+insert" ELSE "replace",
                          sel,
                          IF stmt.SetPairs # <<>> THEN stmt.SetPairs[1][1] ELSE stmt.UnsetFields[1],
                          IF stmt.SetPairs # <<>> THEN v ELSE NoField)

\* DELETE: Prepare, then the pipeline over the rows that WHERE, OFFSET and LIMIT let through
DoDelete ==
    /\ dmlLast.err = ErrNone
    /\ \E name \in DOMAIN TableInfoOf : \E w \in BOOLEAN :
       \E sel \in SUBSET DOMAIN tabs[name].rows :
        /\ ~w => sel = DOMAIN tabs[name].rows
        /\ LET p == DeletePrepare(ContextOf(name),
                        [Stmt("DELETE", w, <<>>, <<>>, "", FALSE, FALSE) EXCEPT !.TableName = name])
           IN  Wrote(RunRows(p.ops, Ascend(sel), Env(tabs, entries), NoField), "DELETE", name, "",
                     sel, "", NoField)

\* the names given to REINDEX: none, a table, an index, neither
ReIndexInputs == {"", "t", "u", "h", "i", "j", "x"}

\* REINDEX: Prepare truncates the indexes, then the streams run
DoReIndex ==
    \E name \in ReIndexInputs :
        LET r == ReIndexRun(ReIndexPrepare(Env(tabs, entries), ReIndexNames(name)),
                            ReIndexNames(name))
        IN  Wrote(r, "REINDEX", name, IF r.idx # entries THEN "changed" ELSE "",
                  {}, "", NoField)

EmptyTable == [rows |-> [x \in {} |-> NoField], seq |-> 0]

DmlIdle ==
    /\ tabs = [t |-> EmptyTable, u |-> EmptyTable]
    /\ entries = [h |-> {}, i |-> {}, j |-> {}]
    /\ dmlLast = DmlNote("", "", "", ErrNone)
    /\ scanned = Scanned(TRUE, TRUE, FALSE)

\* the entries an index may hold, its own and others
Entries(name) ==
    IF name = "h" THEN {<<<<y>>, 1>> : y \in DmlValues}
    ELSE IF name = "j" THEN {<<<<z>>, x>> : z \in DmlValues, x \in DmlValues}
    ELSE {<<<<y, z>>, x>> : y \in DmlValues, z \in DmlValues, x \in DmlValues}

\* the entries of an index that was written behind the table's back
MaxCorrupt == 1

\* tables with rows, indexes with any few entries
CorruptInit ==
    /\ \E keys \in SUBSET DmlValues : \E docs \in [keys -> DmlDocs("t")] :
       \E ukeys \in SUBSET {1} : \E udocs \in [ukeys -> DmlDocs("u")] :
        /\ \A x \in keys : docs[x].k = x
        /\ tabs = [t |-> [rows |-> docs, seq |-> 0],
                  u |-> [rows |-> udocs, seq |-> Cardinality(ukeys)]]
    /\ entries \in [h : {s \in SUBSET Entries("h") : Cardinality(s) <= MaxCorrupt},
                i : {s \in SUBSET Entries("i") : Cardinality(s) <= MaxCorrupt},
                j : {s \in SUBSET Entries("j") : Cardinality(s) <= MaxCorrupt}]
    /\ dmlLast = DmlNote("", "", "", ErrNone)
    /\ scanned = Scanned(TRUE, TRUE, FALSE)

---------------------------------------------------------------------------
(* Index selection (planner/index_selection.go) *)

\* an expression: its kind, the token of an operator, the name of a path,
\* the value of a literal and the operands
Expr(kind, tok, name, val, sub) ==
    [kind |-> kind, tok |-> tok, name |-> name, val |-> val, sub |-> sub]

PathExpr(name) == Expr("Path", "", name, 0, <<>>)
LiteralValue(v) == Expr("LiteralValue", "", "", v, <<>>)
LiteralExprList(es) == Expr("LiteralExprList", "", "", 0, es)
\* LeftHand is sub[1], RightHand is sub[2]
Operator(tok, l, r) == Expr("Operator", tok, "", 0, <<l, r>>)
\* x BETWEEN a AND b: LeftHand a, RightHand b, X x
BetweenOperator(x, a, b) == Expr("Operator", "BETWEEN", "", 0, <<a, b, x>>)
NoExpr == Expr("", "", "", 0, <<>>)

\* an operator of a stream: a scan has a name, ranges and a direction, a
\* filter an expression, Concat and Union their operand streams
Node(op, name, ranges, e) ==
    [op |-> op, name |-> name, ranges |-> ranges, expr |-> e, Reverse |-> FALSE,
     Streams |-> <<>>]
TableScan(name, ranges) == Node("TableScan", name, ranges, NoExpr)
TableScanReverse(name, ranges) == [TableScan(name, ranges) EXCEPT !.Reverse = TRUE]
IndexScan(name, ranges) == Node("IndexScan", name, ranges, NoExpr)
DocsFilter(e) == Node("DocsFilter", "", <<>>, e)
DocsProject == Node("DocsProject", "", <<>>, NoExpr)
Concat(streams) == [Node("Concat", "", <<>>, NoExpr) EXCEPT !.Streams = streams]
Union(streams) == [Node("Union", "", <<>>, NoExpr) EXCEPT !.Streams = streams]

\* stream.Range
ScanRange(paths, min, max, exact, exclusive) ==
    [Paths |-> paths, Min |-> min, Max |-> max, Exact |-> exact, Exclusive |-> exclusive]

operatorIsIndexCompatible(op) == op.tok \in {"=", ">", ">=", "<", "<=", "IN", "BETWEEN"}

RECURSIVE exprContainsPath(_)
exprContainsPath(e) ==
    e.kind = "Path" \/ \E n \in 1 .. Len(e.sub) : exprContainsPath(e.sub[n])

CannotUseIndex == [ok |-> FALSE, path |-> <<>>, operand |-> NoExpr]
CanUseIndex(path, operand) == [ok |-> TRUE, path |-> path, operand |-> operand]

operatorCanUseIndexAnySide(op) ==
    LET lf == op.sub[1]
        rf == op.sub[2]
    IN  IF op.tok = "BETWEEN" /\ op.sub[3].kind = "Path"
        THEN CanUseIndex(NewPath(op.sub[3].name), LiteralExprList(<<lf, rf>>))
        ELSE IF lf.kind = "Path" THEN CanUseIndex(NewPath(lf.name), rf)
        ELSE IF rf.kind = "Path" THEN CanUseIndex(NewPath(rf.name), lf)
        ELSE CannotUseIndex

operatorCanUseIndex(op) ==
    LET lf == op.sub[1]
        rf == op.sub[2]
        leftIsPath == lf.kind = "Path"
        rightIsPath == rf.kind = "Path"
    IN  IF op.tok = "IN"
        THEN IF leftIsPath /\ ~rightIsPath /\ ~exprContainsPath(rf)
             THEN IF rf.kind # "LiteralExprList" THEN CannotUseIndex
                  ELSE CanUseIndex(NewPath(lf.name), rf)
             ELSE CannotUseIndex
        ELSE IF op.tok = "BETWEEN"
        THEN LET x == op.sub[3]
             IN  IF x.kind # "Path" \/ exprContainsPath(lf) \/ exprContainsPath(rf)
                 THEN CannotUseIndex
                 ELSE CanUseIndex(NewPath(x.name), LiteralExprList(<<lf, rf>>))
        ELSE IF leftIsPath /\ ~rightIsPath /\ ~exprContainsPath(rf)
        THEN CanUseIndex(NewPath(lf.name), rf)
        ELSE IF rightIsPath /\ ~leftIsPath /\ ~exprContainsPath(lf)
        THEN CanUseIndex(NewPath(rf.name), lf)
        ELSE CannotUseIndex

\* filterNode; node is the place of the DocsFilter in the stream
FilterNode(node, path, operator, operand) ==
    [node |-> node, path |-> path, operator |-> operator, operand |-> operand]
NoFilterNode == FilterNode(0, <<>>, "", NoExpr)

\* isFilterIndexable of the operator at place n of stream s
isFilterIndexable(s, n) ==
    LET e == s[n].expr
    IN  IF e.kind # "Operator" THEN NoFilterNode
        ELSE IF ~operatorIsIndexCompatible(e) THEN NoFilterNode
        ELSE LET u == operatorCanUseIndex(e)
             IN  IF ~u.ok THEN NoFilterNode
                 ELSE FilterNode(n, u.path, e.tok, u.operand)

\* StreamContext.Filters: the places of the DocsFilters that follow the scan
RECURSIVE FiltersFrom(_, _)
FiltersFrom(s, n) ==
    IF n > Len(s) \/ s[n].op # "DocsFilter" THEN <<>>
    ELSE <<n>> \o FiltersFrom(s, n + 1)

Filters(s) == FiltersFrom(s, 2)

\* filterNodes.getByPath: the first filter for the path
getByPath(nodes, p) ==
    IF \E n \in 1 .. Len(nodes) : IsEqual(nodes[n].path, p)
    THEN nodes[CHOOSE n \in 1 .. Len(nodes) :
                   /\ IsEqual(nodes[n].path, p)
                   /\ \A m \in 1 .. n - 1 : ~IsEqual(nodes[m].path, p)]
    ELSE NoFilterNode

\* the loop of associateIndexWithNodes over the paths of the index
RECURSIVE AssociateSkipGaps(_, _, _, _)
AssociateSkipGaps(paths, nodes, found, hasIn) ==
    IF paths = <<>> THEN [found |-> found, hasIn |-> hasIn]
    ELSE LET n == getByPath(nodes, Head(paths))
         IN  IF n = NoFilterNode THEN AssociateSkipGaps(Tail(paths), nodes, found, hasIn)
             ELSE LET in == hasIn \/ n.operator = "IN"
                      next == IF ~in \/ n.operator \in {"=", "IN"}
                              THEN Append(found, n) ELSE found
                  IN  IF n.operator \notin {"=", "IN"}
                      THEN [found |-> next, hasIn |-> in]
                      ELSE AssociateSkipGaps(Tail(paths), nodes, next, in)

RECURSIVE Associate(_, _, _, _)
Associate(paths, nodes, found, hasIn) ==
    IF paths = <<>> THEN [found |-> found, hasIn |-> hasIn]
    ELSE LET n == getByPath(nodes, Head(paths))
         IN  IF n = NoFilterNode THEN [found |-> found, hasIn |-> hasIn]
             ELSE LET in == hasIn \/ n.operator = "IN"
                      next == IF ~in \/ n.operator \in {"=", "IN"}
                              THEN Append(found, n) ELSE found
                  IN  IF n.operator \notin {"=", "IN"}
                      THEN [found |-> next, hasIn |-> in]
                      ELSE Associate(Tail(paths), nodes, next, in)

buildRangeFromOperatorInclusive(lastOp, paths, operands) ==
    IF lastOp \in {"<", "<="} THEN ScanRange(paths, <<>>, operands, FALSE, FALSE)
    ELSE ScanRange(paths, operands, <<>>, lastOp \in {"=", "IN"}, FALSE)

buildRangeFromOperator(lastOp, paths, operands) ==
    CASE lastOp \in {"=", "IN"} -> ScanRange(paths, operands, <<>>, TRUE, FALSE)
      [] lastOp = ">" -> ScanRange(paths, operands, <<>>, FALSE, TRUE)
      [] lastOp = ">=" -> ScanRange(paths, operands, <<>>, FALSE, FALSE)
      [] lastOp = "<" -> ScanRange(paths, <<>>, operands, FALSE, TRUE)
      [] lastOp = "<=" -> ScanRange(paths, <<>>, operands, FALSE, FALSE)
      [] lastOp = "BETWEEN" ->
            ScanRange(paths,
                      [n \in 1 .. Len(operands) |->
                          IF n = Len(operands) THEN operands[n].sub[1] ELSE operands[n]],
                      [n \in 1 .. Len(operands) |->
                          IF n = Len(operands) THEN operands[n].sub[2] ELSE operands[n]],
                      FALSE, FALSE)
      [] OTHER -> ScanRange(paths, <<>>, <<>>, FALSE, FALSE)

buildRangeFromFilterNodes(filters) ==
    buildRangeFromOperator(filters[Len(filters)].operator,
                           [n \in 1 .. Len(filters) |-> filters[n].path],
                           [n \in 1 .. Len(filters) |-> filters[n].operand])

RECURSIVE Prepend(_, _)
Prepend(e, rs) ==
    IF rs = <<>> THEN <<>> ELSE <<<<e>> \o Head(rs)>> \o Prepend(e, Tail(rs))

RECURSIVE walkLine(_, _)
walkLine(line, rs) ==
    IF line = <<>> THEN <<>> ELSE Prepend(Head(line), rs) \o walkLine(Tail(line), rs)

walkExprFirstOnly(l) ==
    IF \E n \in 1 .. Len(l) : l[n] = <<>> THEN <<>>
    ELSE <<[n \in 1 .. Len(l) |-> l[n][1]]>>

\* walkExpr: the rows that fn is called with, in the order of the calls
RECURSIVE walkExpr(_)
walkExpr(l) ==
    IF Len(l) = 1 THEN [n \in 1 .. Len(l[1]) |-> <<l[1][n]>>]
    ELSE walkLine(l[1], walkExpr(Tail(l)))

buildRangesFromFilterNodes(paths, filters) ==
    LET l == [n \in 1 .. Len(filters) |->
                 IF filters[n].operator # "IN" THEN <<filters[n].operand>>
                 ELSE filters[n].operand.sub]
        rs == walkExpr(l)
    IN  [n \in 1 .. Len(rs) |->
            buildRangeFromOperator("=", SubSeq(paths, 1, Len(rs[n])), rs[n])]

\* the number of leading places where two lists agree
RECURSIVE SharedPrefix(_, _)
SharedPrefix(xs, ys) ==
    IF xs = <<>> \/ ys = <<>> \/ Head(xs) # Head(ys) THEN 0
    ELSE 1 + SharedPrefix(Tail(xs), Tail(ys))

\* Range.Cost: 50 for a range that lacks a bound, 0 for an exact one, else
\* the length of the prefix that Min and Max share
RangeCost(r) ==
    IF r.Exact THEN 0
    ELSE IF r.Min = <<>> \/ r.Max = <<>> THEN 50
    ELSE SharedPrefix(r.Min, r.Max)

\* Ranges.Cost: the sum over the ranges
RECURSIVE RangesCost(_)
RangesCost(rs) == IF rs = <<>> THEN 0 ELSE RangeCost(Head(rs)) + RangesCost(Tail(rs))

\* candidate; nil when no filter was associated; paths are those of the tree
Candidate(nodes, replaceRootBy, rangesCost, isIndex, isUnique, paths) ==
    [nodes |-> nodes, replaceRootBy |-> replaceRootBy, rangesCost |-> rangesCost,
     isIndex |-> isIndex, isUnique |-> isUnique, paths |-> paths, nil |-> nodes = <<>>]

NoCandidate == Candidate(<<>>, TableScan("", <<>>), 0, FALSE, FALSE, <<>>)

associateIndexWithNodes(treeName, isIndex, isUnique, paths, nodes) ==
    LET a == Associate(paths, nodes, <<>>, FALSE)
        ranges == IF a.found = <<>> THEN <<>>
                  ELSE IF ~a.hasIn THEN <<buildRangeFromFilterNodes(a.found)>>
                  ELSE buildRangesFromFilterNodes(paths, a.found)
    IN  Candidate(a.found,
                  IF a.found = <<>> THEN TableScan(treeName, <<>>)
                  ELSE IF ~isIndex THEN TableScan(treeName, ranges)
                  ELSE IndexScan(treeName, ranges),
                  RangesCost(ranges), isIndex, isUnique, paths)

\* candidate.Cost
Cost(c) ==
    c.rangesCost + (IF c.isIndex THEN 20 ELSE 0) - (IF c.isUnique THEN 10 ELSE 0)
        - Len(c.nodes)

ReplacesOnTie(selected, cand) ==
    \/ Len(selected.nodes) < Len(cand.nodes)
    \/ Len(selected.nodes) = Len(cand.nodes) /\ Cost(cand) <= Cost(selected)

\* the test of selectIndex that lets a candidate take the place of the selected one
Replaces(selected, cand) ==
    \/ Len(selected.nodes) < Len(cand.nodes)
    \/ Len(selected.nodes) = Len(cand.nodes) /\ Cost(cand) < Cost(selected)

\* the loop of selectIndex over the candidates of the indexes
RECURSIVE SelectLoop(_, _)
SelectLoop(cands, selected) ==
    IF cands = <<>> THEN selected
    ELSE IF Head(cands).nil THEN SelectLoop(Tail(cands), selected)
    ELSE IF selected.nil THEN SelectLoop(Tail(cands), Head(cands))
    ELSE IF Replaces(selected, Head(cands)) THEN SelectLoop(Tail(cands), Head(cands))
    ELSE SelectLoop(Tail(cands), selected)

\* the candidates in the order selectIndex makes them: the primary key of
\* the table if it has one, then the indexes in the order of ListIndexes
CandidatesOf(catalog, nodes) ==
    (IF catalog.pk = <<>> THEN <<>>
     ELSE <<associateIndexWithNodes(catalog.TableName, FALSE, FALSE, catalog.pk, nodes)>>)
    \o [n \in 1 .. Len(catalog.indexes) |->
           associateIndexWithNodes(catalog.indexes[n].IndexName, TRUE,
                                   catalog.indexes[n].Unique, catalog.indexes[n].Paths, nodes)]

\* the result of SelectIndex: the stream, the error, and what selectIndex
\* computed on the way
Selected(s, err, nodes, cands, selected) ==
    [rule |-> "SelectIndex", Stream |-> s, err |-> err, nodes |-> nodes, cands |-> cands,
     selected |-> selected]

NotSelected ==
    [rule |-> "", Stream |-> <<>>, err |-> ErrNone, nodes |-> <<>>, cands |-> <<>>,
     selected |-> NoCandidate]

\* the places of the stream that are not those of the nodes
RECURSIVE removeFilterNodes(_, _, _)
removeFilterNodes(s, n, nodes) ==
    IF n > Len(s) THEN <<>>
    ELSE (IF \E m \in 1 .. Len(nodes) : nodes[m].node = n THEN <<>> ELSE <<s[n]>>)
         \o removeFilterNodes(s, n + 1, nodes)

selectIndexDropsIndexable(sctx) ==
    LET s == sctx.Stream
        fs == Filters(s)
        nodes == SelectSeq([n \in 1 .. Len(fs) |-> isFilterIndexable(s, fs[n])],
                           LAMBDA x : x # NoFilterNode)
        cands == CandidatesOf(sctx.Catalog, nodes)
        selected == SelectLoop(cands, NoCandidate)
    IN  IF selected.nil THEN Selected(s, ErrNone, nodes, cands, selected)
        ELSE Selected(<<selected.replaceRootBy>> \o removeFilterNodes(s, 2, nodes),
                      ErrNone, nodes, cands, selected)

\* indexSelector.selectIndex
selectIndex(sctx) ==
    LET s == sctx.Stream
        fs == Filters(s)
        nodes == SelectSeq([n \in 1 .. Len(fs) |-> isFilterIndexable(s, fs[n])],
                           LAMBDA x : x # NoFilterNode)
        cands == CandidatesOf(sctx.Catalog, nodes)
        selected == SelectLoop(cands, NoCandidate)
    IN  IF selected.nil THEN Selected(s, ErrNone, nodes, cands, selected)
        ELSE Selected(<<selected.replaceRootBy>> \o removeFilterNodes(s, 2, selected.nodes),
                      ErrNone, nodes, cands, selected)

SelectIndex(sctx) ==
    LET s == sctx.Stream
    IN  IF s = <<>> THEN Selected(s, ErrNone, <<>>, <<>>, NoCandidate)
        ELSE IF s[1].op # "TableScan" THEN Selected(s, ErrNone, <<>>, <<>>, NoCandidate)
        ELSE IF s[1].name # sctx.Catalog.TableName
        THEN Selected(s, ErrNotFound, <<>>, <<>>, NoCandidate)
        ELSE IF Filters(s) = <<>> THEN Selected(s, ErrNone, <<>>, <<>>, NoCandidate)
        ELSE selectIndex(sctx)

(* Inputs of SelectIndex *)

\* the longest list of IN
MaxIn == 2

\* the operators after the scan
MaxOps == 3

IndexInfo(name, paths, unique) == [IndexName |-> name, Paths |-> paths, Unique |-> unique]

\* table foo: with primary key k and indexes on (a), (a, b, c), (b) and a
\* unique one on (c); or without primary key, with indexes on (a, b, c), a
\* unique one on (b) and one on (c); the indexes in the order of their names
SelCatalogs ==
    {[TableName |-> "foo", pk |-> <<NewPath("k")>>,
      indexes |-> <<IndexInfo("idx_foo_a", <<NewPath("a")>>, FALSE),
                    IndexInfo("idx_foo_a_b_c", <<NewPath("a"), NewPath("b"), NewPath("c")>>, FALSE),
                    IndexInfo("idx_foo_b", <<NewPath("b")>>, FALSE),
                    IndexInfo("idx_foo_c", <<NewPath("c")>>, TRUE)>>],
     [TableName |-> "foo", pk |-> <<>>,
      indexes |-> <<IndexInfo("idx_foo_a_b_c", <<NewPath("a"), NewPath("b"), NewPath("c")>>, FALSE),
                    IndexInfo("idx_foo_b", <<NewPath("b")>>, TRUE),
                    IndexInfo("idx_foo_c", <<NewPath("c")>>, FALSE)>>]}

Literals(base, n) == [i \in 1 .. n |-> LiteralValue(base + i)]

\* name IN [base + 1, ..., base + n]
InList(name, base, n) == Operator("IN", PathExpr(name), LiteralExprList(Literals(base, n)))

Plus(l, r) == Operator("+", l, r)

\* filters of the common forms
CoreExprs ==
    {Operator("=", PathExpr("a"), LiteralValue(1)),
     Operator(">", PathExpr("a"), LiteralValue(1)),
     InList("a", 0, MaxIn),
     Operator("=", PathExpr("b"), LiteralValue(3)),
     Operator("<", PathExpr("b"), LiteralValue(3)),
     InList("b", 2, MaxIn),
     Operator("=", PathExpr("c"), LiteralValue(5)),
     Operator(">", PathExpr("c"), LiteralValue(5)),
     Operator("=", PathExpr("k"), LiteralValue(7)),
     Operator("=", PathExpr("d"), LiteralValue(1))}

\* every operator on a path, both sides, and the expressions no index serves
RichExprs ==
    CoreExprs
    \cup {Operator(tok, PathExpr("a"), LiteralValue(1)) : tok \in {">=", "<", "<=", "!="}}
    \cup {InList("a", 0, n) : n \in 0 .. MaxIn}
    \cup {BetweenOperator(PathExpr("a"), LiteralValue(1), LiteralValue(2)),
          BetweenOperator(PathExpr("b"), LiteralValue(3), LiteralValue(4)),
          BetweenOperator(PathExpr("b"), LiteralValue(3), LiteralValue(3)),
          Operator("<", PathExpr("k"), LiteralValue(7)),
          Operator(">", LiteralValue(2), PathExpr("a")),
          Operator("=", Plus(LiteralValue(1), LiteralValue(1)), PathExpr("k")),
          Operator("IN", LiteralValue(1), PathExpr("a")),
          Operator("IN", PathExpr("a"), LiteralValue(9)),
          Operator("IN", PathExpr("a"), LiteralExprList(<<PathExpr("b")>>)),
          Operator("=", PathExpr("a"), PathExpr("b")),
          Operator("=", PathExpr("a"), Plus(PathExpr("b"), LiteralValue(1))),
          Operator("=", Plus(PathExpr("a"), LiteralValue(1)), LiteralValue(2)),
          Operator("=", LiteralValue(1), LiteralValue(1)),
          BetweenOperator(PathExpr("a"), PathExpr("b"), LiteralValue(2)),
          BetweenOperator(PathExpr("a"), LiteralValue(1), Plus(PathExpr("b"), LiteralValue(1))),
          BetweenOperator(Plus(PathExpr("a"), LiteralValue(1)), LiteralValue(1), LiteralValue(2)),
          PathExpr("a")}

NodesOf(exprs) == {DocsFilter(e) : e \in exprs} \cup {DocsProject}

\* the operators after the scan: up to MaxOps of the common forms, or up to
\* two of any form
Pipelines ==
    UNION {[1 .. n -> NodesOf(CoreExprs)] : n \in 0 .. MaxOps}
    \cup UNION {[1 .. n -> NodesOf(RichExprs)] : n \in 0 .. 2}

\* the scans at the head: the table of the catalog, the same in reverse,
\* the same with a range, a table the catalog does not know, an index
Heads ==
    {TableScan("foo", <<>>),
     TableScanReverse("foo", <<>>),
     TableScan("foo", <<ScanRange(<<NewPath("k")>>, <<LiteralValue(7)>>, <<>>, FALSE, FALSE)>>),
     TableScan("bar", <<>>),
     IndexScan("idx_foo_a", <<>>)}

StreamContext(catalog, s) == [Catalog |-> catalog, Stream |-> s]

SelectInputs ==
    {StreamContext(catalog, <<head>> \o p) :
        catalog \in SelCatalogs, head \in Heads, p \in Pipelines}
    \cup {StreamContext(catalog, <<>>) : catalog \in SelCatalogs}

DoSelectIndex ==
    /\ selOut = NotSelected
    /\ selOut' = SelectIndex(selIn)
    /\ UNCHANGED <<selIn, notSelVars>>

SelIdle ==
    /\ selIn = StreamContext(CHOOSE c \in SelCatalogs : c.pk = <<>>, <<>>)
    /\ selOut = NotSelected

SelectInit ==
    /\ selIn \in SelectInputs
    /\ selOut = NotSelected

(* The documents a stream delivers (stream/table.go) *)

\* the rows of table foo: documents with the fields of the filters
SelDocs ==
    {[k |-> x, a |-> y, b |-> z, c |-> w, d |-> 1] :
        x \in {2, 7}, y \in {1, 2, 3}, z \in {3, 4}, w \in {5, 6}}

\* Expr.Eval on a document: the value of a path, of a literal, of a sum; a
\* comparison gives 1 or 0; IN asks for a list on the right
RECURSIVE Eval(_, _)
Eval(e, doc) ==
    LET v(n) == Eval(e.sub[n], doc)
        Bool(b) == IF b THEN 1 ELSE 0
    IN  CASE e.kind = "Path" -> doc[e.name]
          [] e.kind = "LiteralValue" -> e.val
          [] e.kind = "Operator" /\ e.tok = "+" -> v(1) + v(2)
          [] e.kind = "Operator" /\ e.tok = "=" -> Bool(v(1) = v(2))
          [] e.kind = "Operator" /\ e.tok = "!=" -> Bool(v(1) # v(2))
          [] e.kind = "Operator" /\ e.tok = ">" -> Bool(v(1) > v(2))
          [] e.kind = "Operator" /\ e.tok = ">=" -> Bool(v(1) >= v(2))
          [] e.kind = "Operator" /\ e.tok = "<" -> Bool(v(1) < v(2))
          [] e.kind = "Operator" /\ e.tok = "<=" -> Bool(v(1) <= v(2))
          [] e.kind = "Operator" /\ e.tok = "AND" -> Bool(v(1) # 0 /\ v(2) # 0)
          [] e.kind = "Operator" /\ e.tok = "BETWEEN" -> Bool(v(1) <= v(3) /\ v(3) <= v(2))
          [] e.kind = "Operator" /\ e.tok = "IN" ->
                Bool(/\ e.sub[2].kind = "LiteralExprList"
                     /\ \E n \in 1 .. Len(e.sub[2].sub) : Eval(e.sub[2].sub[n], doc) = v(1))
          [] OTHER -> 0

\* the row of doc is in the range: its values at the paths of the range
\* match an exact range, or are at or after Min (after when exclusive) and
\* at or before Max, within the rows that share the values before the last
InRange(r, doc) ==
    LET at(n) == doc[r.Paths[n][1]]
        min == [n \in 1 .. Len(r.Min) |-> Eval(r.Min[n], doc)]
        max == [n \in 1 .. Len(r.Max) |-> Eval(r.Max[n], doc)]
    IN  IF r.Exact THEN \A n \in 1 .. Len(min) : at(n) = min[n]
        ELSE /\ min # <<>> =>
                /\ \A n \in 1 .. Len(min) - 1 : at(n) = min[n]
                /\ IF r.Exclusive THEN at(Len(min)) > min[Len(min)]
                   ELSE at(Len(min)) >= min[Len(min)]
             /\ max # <<>> =>
                /\ \A n \in 1 .. Len(max) - 1 : at(n) = max[n]
                /\ IF r.Exclusive THEN at(Len(max)) < max[Len(max)]
                   ELSE at(Len(max)) <= max[Len(max)]

\* TableScanOperator.Iterate: how often the scan gives the row of doc; once
\* without ranges, else once per range that holds the row
ScanIterate(scan, doc) ==
    IF scan.ranges = <<>> THEN 1
    ELSE Cardinality({n \in 1 .. Len(scan.ranges) : InRange(scan.ranges[n], doc)})

\* how often the stream gives the row of doc: the scan, then every DocsFilter
Delivered(s, doc) ==
    IF s = <<>> THEN 0
    ELSE IF \A n \in 2 .. Len(s) : s[n].op = "DocsFilter" => Eval(s[n].expr, doc) # 0
    THEN ScanIterate(s[1], doc)
    ELSE 0

(* A table scan and its consumer (stream/table.go) *)

ErrStreamClosed == "StreamClosed"

\* the ranges of a scan
MaxRanges == 2

\* the keys of the rows of the table
ScanKeys == {1, 2}

\* the result of an iteration: the keys handed to fn so far, and the error
ScanResult(handed, err) == [calls |-> handed, err |-> err]

\* Table.IterateOnRange: fn is called with each row of the range, in key
\* order, until it returns an error, which is returned as it is; answers[n]
\* is what fn returns at its n-th call
RECURSIVE IterateOnRange(_, _, _)
IterateOnRange(keys, answers, handed) ==
    IF keys = <<>> THEN ScanResult(handed, ErrNone)
    ELSE LET now == Append(handed, Head(keys))
         IN  IF answers[Len(now)] # ErrNone THEN ScanResult(now, answers[Len(now)])
             ELSE IterateOnRange(Tail(keys), answers, now)

\* the loop of TableScanOperator.Iterate over the ranges, each given by the
\* keys of its rows
RECURSIVE IterateRanges(_, _, _)
IterateRanges(ranges, answers, handed) ==
    IF ranges = <<>> THEN ScanResult(handed, ErrNone)
    ELSE LET r == IterateOnRange(Head(ranges), answers, handed)
             err == IF r.err = ErrStreamClosed THEN ErrNone ELSE r.err
         IN  IF err # ErrNone THEN ScanResult(r.calls, err)
             ELSE IterateRanges(Tail(ranges), answers, r.calls)

\* TableScanOperator.Iterate: without ranges, one iteration over the table
TableScanIterate(ranges, table, answers) ==
    IF ranges = <<>> THEN IterateRanges(<<table>>, answers, <<>>)
    ELSE IterateRanges(ranges, answers, <<>>)

\* the rows of a range or of the table: keys in key order
ScanRows == {Ascend(S) : S \in SUBSET ScanKeys}

\* what fn may return: nil, ErrStreamClosed, another error
Answers == {ErrNone, ErrStreamClosed, "failed"}

NotIterated == [ran |-> FALSE, calls |-> <<>>, err |-> ErrNone]

ScanInputs ==
    {[ranges |-> rs, table |-> Ascend(ScanKeys), answers |-> as] :
        rs \in UNION {[1 .. n -> ScanRows] : n \in 0 .. MaxRanges},
        as \in [1 .. MaxRanges * Cardinality(ScanKeys) -> Answers]}

DoIterate ==
    /\ ~scanOut.ran
    /\ LET r == TableScanIterate(scanIn.ranges, scanIn.table, scanIn.answers)
       IN  scanOut' = [ran |-> TRUE, calls |-> r.calls, err |-> r.err]
    /\ UNCHANGED <<scanIn, notScanVars>>

ScanIdle ==
    /\ scanIn = [ranges |-> <<>>, table |-> <<>>, answers |-> <<>>]
    /\ scanOut = NotIterated

ScanInit ==
    /\ scanIn \in ScanInputs
    /\ scanOut = NotIterated

(* The rules that run before SelectIndex (planner/optimizer.go) *)

\* a constant array of n elements
LiteralArray(n) == Expr("LiteralValue", "", "array", n, <<>>)

\* types.IsTruthy of the value of a literal: a number other than zero, an
\* array that is not empty
IsTruthy(e) == e.val # 0

IsAnd(e) == e.kind = "Operator" /\ e.tok = "AND"

splitANDExprOnce(e) == IF IsAnd(e) THEN e.sub ELSE <<e>>

\* splitANDExpr: the conjuncts of an expression, left to right
RECURSIVE splitANDExpr(_)
splitANDExpr(e) ==
    IF IsAnd(e) THEN splitANDExpr(e.sub[1]) \o splitANDExpr(e.sub[2]) ELSE <<e>>

\* SplitANDConditionRule: each DocsFilter of an AND gives way to the
\* DocsFilters of its conjuncts
RECURSIVE SplitANDConditionRule(_)
SplitANDConditionRule(s) ==
    IF s = <<>> THEN <<>>
    ELSE (IF Head(s).op = "DocsFilter" /\ IsAnd(Head(s).expr)
          THEN LET es == splitANDExpr(Head(s).expr)
               IN  [n \in 1 .. Len(es) |-> DocsFilter(es[n])]
          ELSE <<Head(s)>>)
         \o SplitANDConditionRule(Tail(s))

\* a filter that lets every document through
Passes(o) == o.op = "DocsFilter" /\ o.expr.kind = "LiteralValue" /\ IsTruthy(o.expr)

BlocksOnConstantOnly(o) ==
    o.op = "DocsFilter" /\ o.expr.kind = "LiteralValue" /\ ~IsTruthy(o.expr)

\* a filter that lets no document through: a constant that is not truthy,
\* or IN with a constant empty array on the right
Blocks(o) ==
    /\ o.op = "DocsFilter"
    /\ \/ o.expr.kind = "LiteralValue" /\ ~IsTruthy(o.expr)
       \/ /\ o.expr.kind = "Operator" /\ o.expr.tok = "IN"
          /\ o.expr.sub[2] = LiteralArray(0)

\* RemoveUnnecessaryFilterNodesRule: the stream without the filters that
\* let everything through, or the empty stream
RemoveUnnecessaryFilterNodesRule(s) ==
    IF \E n \in 1 .. Len(s) : Blocks(s[n]) THEN <<>>
    ELSE SelectSeq(s, LAMBDA o : ~Passes(o))

RuleResult(rule, s) == [Selected(s, ErrNone, <<>>, <<>>, NoCandidate) EXCEPT !.rule = rule]

And(l, r) == Operator("AND", l, r)

\* conditions with AND at the top, nested on either side, below OR, and
\* without; constants; IN with a constant array
RuleExprs ==
    LET a == Operator("=", PathExpr("a"), LiteralValue(1))
        b == Operator("=", PathExpr("b"), LiteralValue(3))
        c == Operator(">", PathExpr("c"), LiteralValue(5))
        k == Operator("=", PathExpr("k"), LiteralValue(7))
    IN  {a, And(a, b), And(And(a, b), And(c, k)), And(a, And(b, c)),
         Operator("OR", And(a, b), c),
         PathExpr("a"), LiteralValue(10), LiteralValue(0),
         Operator("IN", PathExpr("a"), LiteralArray(0)),
         Operator("IN", PathExpr("a"), LiteralArray(2))}

RuleInputs ==
    {StreamContext(CHOOSE c \in SelCatalogs : c.pk = <<>>, <<TableScan("foo", <<>>)>> \o p) :
        p \in UNION {[1 .. n -> NodesOf(RuleExprs)] : n \in 0 .. MaxOps}}

DoSplitANDCondition ==
    /\ selOut = NotSelected
    /\ selOut' = RuleResult("SplitANDConditionRule", SplitANDConditionRule(selIn.Stream))
    /\ UNCHANGED <<selIn, notSelVars>>

DoRemoveUnnecessaryFilterNodes ==
    /\ selOut = NotSelected
    /\ selOut' = RuleResult("RemoveUnnecessaryFilterNodesRule",
                            RemoveUnnecessaryFilterNodesRule(selIn.Stream))
    /\ UNCHANGED <<selIn, notSelVars>>

RuleInit ==
    /\ selIn \in RuleInputs
    /\ selOut = NotSelected

(* Optimize (planner/optimizer.go) *)

\* the nesting of Concat and Union
MaxNest == 2

\* precalculateExpr: an operator whose operands are constants gives way to
\* its value, a list of constants to the array of them
RECURSIVE precalculateExpr(_)
precalculateExpr(e) ==
    LET subs == [n \in 1 .. Len(e.sub) |-> precalculateExpr(e.sub[n])]
        constant == \A n \in 1 .. Len(subs) : subs[n].kind = "LiteralValue"
    IN  IF e.kind = "LiteralExprList"
        THEN IF constant THEN [LiteralArray(Len(subs)) EXCEPT !.sub = subs]
             ELSE LiteralExprList(subs)
        ELSE IF e.kind = "Operator"
        THEN IF constant THEN LiteralValue(Eval(e, CHOOSE doc \in SelDocs : TRUE))
             ELSE [e EXCEPT !.sub = subs]
        ELSE e

\* PrecalculateExprRule: the expression of every filter with its constant
\* parts evaluated
PrecalculateExprRule(s) ==
    [n \in 1 .. Len(s) |->
        IF s[n].op = "DocsFilter" THEN DocsFilter(precalculateExpr(s[n].expr)) ELSE s[n]]

Optimized(s, err) == [RuleResult("Optimize", s) EXCEPT !.err = err]

\* the table of the catalog that the stream scans
GetTableInfo(catalog, s) ==
    IF \E ti \in catalog : ti.TableName = s[1].name
    THEN CHOOSE ti \in catalog : ti.TableName = s[1].name
    ELSE [TableName |-> "", pk |-> <<>>, indexes |-> <<>>]

\* optimize: the rules in their order, until one fails or leaves the empty
\* stream
optimize(s, catalog) ==
    LET filtered ==
            RemoveUnnecessaryFilterNodesRule(PrecalculateExprRule(SplitANDConditionRule(s)))
        selected == SelectIndex(StreamContext(GetTableInfo(catalog, filtered), filtered))
    IN  IF filtered = <<>> THEN Optimized(<<>>, ErrNone)
        ELSE Optimized(selected.Stream, selected.err)

IsCompound(s) == s # <<>> /\ s[1].op \in {"Concat", "Union"}

\* Optimize: the operands of a Concat or a Union at the head are optimized
\* one by one, each as a stream of its own, and put back in their places;
\* the first error is returned
RECURSIVE Optimize(_, _)

OptimizeOperandByRulesOnly(st, catalog) == optimize(st, catalog)

OptimizeOperand(st, catalog) == Optimize(st, catalog)

Optimize(s, catalog) ==
    IF IsCompound(s)
    THEN LET optimized ==
                 [n \in 1 .. Len(s[1].Streams) |-> OptimizeOperand(s[1].Streams[n], catalog)]
             failed == {n \in 1 .. Len(optimized) : optimized[n].err # ErrNone}
         IN  IF failed # {}
             THEN Optimized(<<>>, optimized[CHOOSE n \in failed : \A m \in failed : n <= m].err)
             ELSE Optimized(
                    <<[s[1] EXCEPT !.Streams =
                          [n \in 1 .. Len(optimized) |-> optimized[n].Stream]]>>
                    \o Tail(s), ErrNone)
    ELSE optimize(s, catalog)

\* tables foo and bar, each with an index on (a, d)
OptCatalog ==
    {[TableName |-> "foo", pk |-> <<>>,
      indexes |-> <<IndexInfo("idx_foo_a_d", <<NewPath("a"), NewPath("d")>>, FALSE)>>],
     [TableName |-> "bar", pk |-> <<>>,
      indexes |-> <<IndexInfo("idx_bar_a_d", <<NewPath("a"), NewPath("d")>>, FALSE)>>]}

\* the streams without operands: a filter with a sum of constants, filters
\* of a constant that is truthy and of one that is not, filters that an
\* index serves, alone and under AND, and a scan of a table that is not in
\* the catalog
OptLeaves ==
    LET a == Operator("=", PathExpr("a"), LiteralValue(1))
        d == Operator("=", PathExpr("d"), LiteralValue(2))
        sum == Operator("+", LiteralValue(1), LiteralValue(2))
    IN  {<<TableScan("foo", <<>>), DocsFilter(Operator("=", PathExpr("c"), sum))>>,
         <<TableScan("bar", <<>>), DocsFilter(LiteralValue(10))>>,
         <<TableScan("foo", <<>>), DocsFilter(LiteralValue(0))>>,
         <<TableScan("foo", <<>>), DocsFilter(a), DocsFilter(d)>>,
         <<TableScan("bar", <<>>), DocsFilter(And(a, d))>>,
         <<TableScan("baz", <<>>), DocsFilter(a)>>}

\* the streams that stand beside an operand: the ones of table bar that lose
\* a filter or get an index scan
OptSiblings == {s \in OptLeaves : s[1].name = "bar"}

\* the streams with Concat and Union nested n deep: one operand, or two of
\* which one is of OptSiblings
RECURSIVE Nested(_)
Nested(n) ==
    IF n = 0 THEN OptLeaves
    ELSE LET operands == {<<x>> : x \in Nested(n - 1)}
                         \cup {<<x, l>> : x \in Nested(n - 1), l \in OptSiblings}
                         \cup {<<l, x>> : x \in Nested(n - 1), l \in OptSiblings}
         IN  {<<Concat(o)>> : o \in operands} \cup {<<Union(o)>> : o \in operands}

OptimizeInputs ==
    {StreamContext(OptCatalog, s) : s \in UNION {Nested(n) : n \in 0 .. MaxNest}}

DoOptimize ==
    /\ selOut = NotSelected
    /\ selOut' = Optimize(selIn.Stream, selIn.Catalog)
    /\ UNCHANGED <<selIn, notSelVars>>

OptimizeInit ==
    /\ selIn \in OptimizeInputs
    /\ selOut = NotSelected

---------------------------------------------------------------------------
(* Transactions *)

ApplyHook(cc, h) ==
    IF h.op = "delete"
    THEN setMapByType(cc, h.tp, MapDelete(getMapByType(cc, h.tp), h.name))
    ELSE setMapByType(cc, h.tp, MapPut(getMapByType(cc, h.tp), h.name, h.o))

\* Transaction.Rollback runs the hooks last to first
RECURSIVE RunHooks(_, _)
RunHooks(cc, hs) ==
    IF hs = <<>> THEN cc
    ELSE RunHooks(ApplyHook(cc, hs[Len(hs)]), SubSeq(hs, 1, Len(hs) - 1))

Cur == [cache |-> cache, rows |-> rows, data |-> data, seqTable |-> seqTable,
        hooks |-> hooks]

Install(c) ==
    /\ cache' = c.cache
    /\ rows' = c.rows
    /\ data' = c.data
    /\ seqTable' = c.seqTable
    /\ hooks' = c.hooks

\* op(a, b) returned err; res is the name of the object it added, n a count it made
Note(op, a, b, err, res, n) ==
    [op |-> op, a |-> a, b |-> b, err |-> err, res |-> res, n |-> n]

Called(r, op, a, b) ==
    /\ Install(r.c)
    /\ last' = Note(op, a, b, r.err,
                    IF r.err = ErrNone /\ r.o # NoObject THEN r.o.name ELSE "",
                    Len(r.c.hooks) - Len(hooks))
    /\ txOk' = (txOk /\ r.err = ErrNone)
    /\ calls' = calls + 1
    /\ UNCHANGED <<committed, txCache>>
    /\ UNCHANGED notCatVars

CanCall == calls < MaxCalls

Empty == [cache |-> newCatalogCache, rows |-> EmptyMap,
          data |-> [n \in NamespaceIds |-> {}], seqTable |-> EmptyMap, hooks |-> <<>>]

Booted == CatalogInit(Empty).c

\* the catalog of a new database
CatIdle ==
    /\ cache = Booted.cache
    /\ rows = Booted.rows
    /\ data = Booted.data
    /\ seqTable = Booted.seqTable
    /\ hooks = <<>>
    /\ committed = [rows |-> Booted.rows, data |-> Booted.data, seqTable |-> Booted.seqTable]
    /\ txCache = Booted.cache
    /\ calls = 0
    /\ txOk = TRUE
    /\ last = Note("Init", "", "", ErrNone, "", 0)

Init == CatIdle /\ KvIdle /\ KeyIdle /\ PlanIdle /\ DmlIdle /\ SelIdle /\ ScanIdle

\* a table has a declared primary key (docid = "") or the docid sequence created for it
TableInfos(tableName) ==
    {[name |-> "", ns |-> 0, fcs |-> <<>>, docid |-> docid, ro |-> FALSE] :
        docid \in {""} \cup {s \in DOMAIN cache.sequences :
                                cache.sequences[s].owner.table = tableName}}

DoCreateTable ==
    \E tableName \in TableNames : \E info \in TableInfos(tableName) :
        /\ CanCall
        /\ Called(CreateTable(Cur, tableName, info), "CreateTable", tableName, "")

\* the orders in which a loop may visit the members of S
Orderings(S) ==
    {f \in [1..Cardinality(S) -> S] : \A i, j \in 1..Cardinality(S) : i # j => f[i] # f[j]}

\* CREATE INDEX names its index or not; the index of a UNIQUE constraint is unnamed and owned
IndexInfos(name, tableName) ==
    {[name |-> name, ns |-> 0, table |-> tableName, paths |-> <<p>>,
      owner |-> IF owned THEN [table |-> tableName, paths |-> <<p>>] ELSE NoOwner] :
        p \in Fields, owned \in IF name = "" THEN BOOLEAN ELSE {FALSE}}

\* CREATE SEQUENCE names its sequence; the docid sequence of a table is unnamed and owned
SequenceInfos(name) ==
    {[name |-> name, start |-> 1, owner |-> [table |-> t, paths |-> <<>>]] :
        t \in IF name = "" THEN TableNames ELSE {""}}

DoDropTable ==
    \E tableName \in TableNames :
        \E order \in Orderings(GetTableIndexes(cache, tableName)) :
            /\ CanCall
            /\ Called(DropTable(Cur, tableName, order), "DropTable", tableName, "")

DoCreateIndex ==
    \E name \in IndexNameInputs : \E tableName \in TableNames :
        \E info \in IndexInfos(name, tableName) :
            /\ CanCall
            /\ Called(CreateIndex(Cur, info), "CreateIndex", name, tableName)

DoDropIndex ==
    \E name \in (DOMAIN cache.indexes) \cup (IndexNameInputs \ {""}) :
        /\ CanCall
        /\ Called(DropIndex(Cur, name), "DropIndex", name, "")

DoAddFieldConstraint ==
    \E tableName \in TableNames : \E fc \in {""} \cup AddedFields : \E tcs \in {"", "conflict"} :
        /\ CanCall
        /\ Called(AddFieldConstraint(Cur, tableName, fc, tcs),
                  "AddFieldConstraint", tableName, fc)

DoRenameTable ==
    \E oldName \in TableNames : \E newName \in TableNames :
        \E idxOrder \in Orderings(GetTableIndexes(cache, oldName)) :
            \E seqOrder \in Orderings({n \in DOMAIN cache.sequences :
                                          cache.sequences[n].owner.table = oldName}) :
                /\ CanCall
                /\ Called(RenameTable(Cur, oldName, newName, idxOrder, seqOrder),
                          "RenameTable", oldName, newName)

DoCreateSequence ==
    \E name \in SequenceNameInputs : \E info \in SequenceInfos(name) :
        /\ CanCall
        /\ Called(CreateSequence(Cur, info), "CreateSequence", name, info.owner.table)

\* the store sequence belongs to the catalog and is never a target of DROP SEQUENCE
DoDropSequence ==
    \E name \in ((DOMAIN cache.sequences) \cup (SequenceNameInputs \ {""})) \ {StoreSequence} :
        /\ CanCall
        /\ Called(DropSequence(Cur, name), "DropSequence", name, "")

\* Init called again, as at every opening of the database
DoInit ==
    /\ CanCall
    /\ Called(CatalogInit(Cur), "Init", "", "")

DoInsertDocument ==
    \E tableName \in DOMAIN cache.tables : \E k \in Keys :
        /\ k \notin data[cache.tables[tableName].ns]
        /\ Install(InsertDocument(Cur, tableName, k).c)
        /\ last' = Note("Insert", tableName, k, ErrNone, "", 0)
        /\ UNCHANGED <<committed, txCache, txOk, calls>>
        /\ UNCHANGED notCatVars

Commit ==
    /\ committed' = [rows |-> rows, data |-> data, seqTable |-> seqTable]
    /\ hooks' = <<>>
    /\ txCache' = cache
    /\ UNCHANGED calls
    /\ txOk' = TRUE
    /\ last' = Note("Commit", IF txOk THEN "clean" ELSE "failed", "", ErrNone, "", Len(hooks))
    /\ UNCHANGED <<cache, rows, data, seqTable>>
    /\ UNCHANGED notCatVars

Rollback ==
    /\ cache' = RunHooks(cache, hooks)
    /\ rows' = committed.rows
    /\ data' = committed.data
    /\ seqTable' = committed.seqTable
    /\ hooks' = <<>>
    /\ txCache' = RunHooks(cache, hooks)
    /\ UNCHANGED calls
    /\ txOk' = TRUE
    /\ last' = Note("Rollback", "", "", ErrNone, "", Len(hooks))
    /\ UNCHANGED committed
    /\ UNCHANGED notCatVars

Next ==
    \/ DoCreateTable
    \/ DoDropTable
    \/ DoCreateIndex
    \/ DoDropIndex
    \/ DoAddFieldConstraint
    \/ DoRenameTable
    \/ DoCreateSequence
    \/ DoDropSequence
    \/ DoInit
    \/ DoInsertDocument
    \/ Commit
    \/ Rollback

Spec == Init /\ [][Next]_vars

\* a kv store used through its namespaces; the catalog is left as booted
KvNext ==
    \/ NewSession
    \/ KvPut
    \/ KvGet
    \/ KvDelete
    \/ KvTruncate
    \/ KvIterate

KvSpec == Init /\ [][KvNext]_vars

\* NewKey applied to two tuples of values of the same kinds
KeyNext == EncodeKeys

KeyStart == CatIdle /\ KvIdle /\ KeyInit /\ PlanIdle /\ DmlIdle /\ SelIdle /\ ScanIdle

KeySpec == KeyStart /\ [][KeyNext]_vars

\* Prepare applied to an UPDATE or a DELETE statement
PlanNext ==
    \/ PrepareUpdate
    \/ PrepareDelete

PlanStart == CatIdle /\ KvIdle /\ KeyIdle /\ PlanInit /\ DmlIdle /\ SelIdle /\ ScanIdle

PlanSpec == PlanStart /\ [][PlanNext]_vars

\* INSERT, UPDATE and DELETE on empty tables, until a statement fails
DmlNext ==
    \/ DoInsert
    \/ DoUpdate
    \/ DoDelete

DmlSpec == Init /\ [][DmlNext]_vars

\* REINDEX over tables with rows and indexes of any content
ReIndexNext == DoReIndex

ReIndexStart == CatIdle /\ KvIdle /\ KeyIdle /\ PlanIdle /\ CorruptInit /\ SelIdle /\ ScanIdle

ReIndexSpec == ReIndexStart /\ [][ReIndexNext]_vars

\* SelectIndex on every stream and catalog of SelectInputs
SelectNext == DoSelectIndex

SelectStart == CatIdle /\ KvIdle /\ KeyIdle /\ PlanIdle /\ DmlIdle /\ SelectInit /\ ScanIdle

SelectSpec == SelectStart /\ [][SelectNext]_vars

\* the rules on every stream of RuleInputs
RuleNext ==
    \/ DoSplitANDCondition
    \/ DoRemoveUnnecessaryFilterNodes

RuleStart == CatIdle /\ KvIdle /\ KeyIdle /\ PlanIdle /\ DmlIdle /\ RuleInit /\ ScanIdle

RuleSpec == RuleStart /\ [][RuleNext]_vars

\* a table scan over every list of ranges and every consumer of ScanInit
ScanNext == DoIterate

ScanStart == CatIdle /\ KvIdle /\ KeyIdle /\ PlanIdle /\ DmlIdle /\ SelIdle /\ ScanInit

ScanSpec == ScanStart /\ [][ScanNext]_vars

\* Optimize on every stream of OptimizeInputs
OptimizeNext == DoOptimize

OptimizeStart == CatIdle /\ KvIdle /\ KeyIdle /\ PlanIdle /\ DmlIdle /\ OptimizeInit /\ ScanIdle

OptimizeSpec == OptimizeStart /\ [][OptimizeNext]_vars

---------------------------------------------------------------------------
(* Properties of the catalog *)

\* C1: at any point of a transaction, whatever calls it made and whether they
\* succeeded or failed, running its rollback hooks last to first gives the
\* three cache maps the content they had when the transaction began.
C1_RollbackRestoresCache == RunHooks(cache, hooks) = txCache

\* a rollback has just run three hooks or more, and tables remain
C1_RolledBack ==
    /\ last.op = "Rollback"
    /\ last.n >= 3
    /\ cache.tables # EmptyMap

\* C2: no name is a key of more than one of the maps tables, indexes, sequences.
C2_NamesUnique ==
    /\ (DOMAIN cache.tables) \cap (DOMAIN cache.indexes) = {}
    /\ (DOMAIN cache.tables) \cap (DOMAIN cache.sequences) = {}
    /\ (DOMAIN cache.indexes) \cap (DOMAIN cache.sequences) = {}

\* tables and indexes exist and a call naming a used name was just refused
C2_DuplicateRefused ==
    /\ cache.tables # EmptyMap
    /\ cache.indexes # EmptyMap
    /\ last.err = ErrAlreadyExists

(* What the cache and the catalog rows say about the objects *)

CacheNames(cc) == (DOMAIN cc.tables) \cup (DOMAIN cc.indexes) \cup (DOMAIN cc.sequences)

\* the catalog rows rw and the cache cc describe the same objects
Agree(cc, rw) ==
    /\ DOMAIN rw = CacheNames(cc)
    /\ \A n \in DOMAIN cc.tables :
          /\ rw[n].type = RelationTableType
          /\ rw[n].namespace = cc.tables[n].ns
    /\ \A n \in DOMAIN cc.indexes :
          /\ rw[n].type = RelationIndexType
          /\ rw[n].namespace = cc.indexes[n].ns
          /\ rw[n].table_name = cc.indexes[n].table
    /\ \A n \in DOMAIN cc.sequences :
          /\ rw[n].type = RelationSequenceType
          /\ rw[n].owner = cc.sequences[n].owner

\* C3: after a commit of a transaction whose catalog calls all succeeded, the
\* catalog rows and the cache describe the same objects: same names, and per
\* name the same type, namespace, owning table (indexes) and owner (sequences).
C3_CommittedRowsAgree ==
    (last.op = "Commit" /\ last.a = "clean") => Agree(cache, committed.rows)

ok(op) == last'.op = op /\ last'.err = ErrNone

\* what RenameTable(old, new) makes of the cache cc
Renamed(cc, old, new) ==
    [tables |-> [n \in ((DOMAIN cc.tables) \ {old}) \cup {new} |->
                    IF n = new THEN [cc.tables[old] EXCEPT !.name = new] ELSE cc.tables[n]],
     indexes |-> [n \in DOMAIN cc.indexes |->
                    IF cc.indexes[n].table = old
                    THEN [cc.indexes[n] EXCEPT !.table = new] ELSE cc.indexes[n]],
     sequences |-> [n \in DOMAIN cc.sequences |->
                    IF cc.sequences[n].owner.table = old
                    THEN [cc.sequences[n] EXCEPT !.owner.table = new] ELSE cc.sequences[n]]]

\* C4, as claimed: after a successful RenameTable(old, new) the cache has no
\* table old, has the table under new with the namespace and constraints of
\* old, the indexes and sequences of old name new, and the rest is unchanged.
C4_RenameMovesTable ==
    [][ok("RenameTable") =>
          /\ last'.a \notin DOMAIN cache'.tables
          /\ cache' = Renamed(cache, last'.a, last'.b)]_vars

\* C4, amended: the same for new # old; RenameTable(old, old) succeeds and
\* leaves the cache as it was, table old included.
C4_RenameMovesTableToOtherName ==
    [][ok("RenameTable") =>
          /\ cache' = Renamed(cache, last'.a, last'.b)
          /\ (last'.a # last'.b) => last'.a \notin DOMAIN cache'.tables
          /\ (last'.a = last'.b) => cache' = cache]_vars

\* a rename to another name has moved a table and retargeted an index of it
C4_Renamed ==
    /\ last.op = "RenameTable" /\ last.err = ErrNone /\ last.a # last.b
    /\ last.b \in DOMAIN cache.tables
    /\ \E n \in DOMAIN cache.indexes : cache.indexes[n].table = last.b

\* C5: CreateTable with a name some table, index or sequence has fails with
\* AlreadyExists; CreateIndex on a missing table fails with NotFound, and on an
\* existing table with a used index name fails with AlreadyExists; each time
\* the cache maps and the catalog rows stay as they were.
C5_FailedCreateChangesNothing ==
    [][/\ (last'.op = "CreateTable" /\ objectExists(cache, last'.a)) =>
              (last'.err = ErrAlreadyExists /\ cache' = cache /\ rows' = rows)
       /\ (last'.op = "CreateIndex" /\ last'.b \notin DOMAIN cache.tables) =>
              (last'.err = ErrNotFound /\ cache' = cache /\ rows' = rows)
       /\ (/\ last'.op = "CreateIndex" /\ last'.b \in DOMAIN cache.tables
           /\ last'.a # "" /\ objectExists(cache, last'.a)) =>
              (last'.err = ErrAlreadyExists /\ cache' = cache /\ rows' = rows)]_vars

StoreObjects(cc) ==
    {[name |-> n, ns |-> cc.tables[n].ns] : n \in DOMAIN cc.tables} \cup
    {[name |-> n, ns |-> cc.indexes[n].ns] : n \in DOMAIN cc.indexes}

\* C6: every table and index of the cache has a namespace of at least 101,
\* never the catalog's or the sequence table's; no two of them share one; and
\* the object a successful CreateTable or CreateIndex added has the value the
\* store sequence holds.
C6_NamespacesFresh ==
    /\ \A x \in StoreObjects(cache) :
          /\ x.ns >= StoreSeqStart
          /\ x.ns \notin {CatalogTableNamespace, SequenceTableNamespace}
    /\ \A x, y \in StoreObjects(cache) : x.name # y.name => x.ns # y.ns
    /\ (last.op = "CreateTable" /\ last.err = ErrNone) =>
          cache.tables[last.res].ns = seqTable[StoreSequence]
    /\ (last.op = "CreateIndex" /\ last.err = ErrNone) =>
          cache.indexes[last.res].ns = seqTable[StoreSequence]

\* an index was just created in a transaction of its own, after its table's
\* transaction and one more call, and has the namespace after the table's
C6_AllocatedInLaterTransaction ==
    /\ last.op = "CreateIndex" /\ last.err = ErrNone
    /\ Len(hooks) = 1 /\ calls = 3
    /\ cache.indexes[last.res].ns = StoreSeqStart + 1

\* C7: after a successful DropTable(t) the cache has neither t nor an index of
\* t, the catalog rows of t and of those indexes are gone, their namespaces
\* hold no key, and the other tables, indexes and namespaces are unchanged.
C7_DropTableCascades ==
    [][ok("DropTable") =>
          LET t == last'.a
              idxs == GetTableIndexes(cache, t)
              nss == {cache.tables[t].ns} \cup {cache.indexes[i].ns : i \in idxs}
          IN  /\ t \notin DOMAIN cache'.tables
              /\ GetTableIndexes(cache', t) = {}
              /\ (DOMAIN rows') \cap ({t} \cup idxs) = {}
              /\ \A n \in nss : data'[n] = {}
              /\ cache'.tables = MapDelete(cache.tables, t)
              /\ cache'.indexes = [n \in (DOMAIN cache.indexes) \ idxs |-> cache.indexes[n]]
              /\ \A n \in (DOMAIN data) \ nss : data'[n] = data[n]]_vars

\* DropTable has just dropped a table and an index of it whose namespace held
\* a committed key
C7_DroppedWithIndex ==
    /\ last.op = "DropTable" /\ last.err = ErrNone
    /\ \E i \in 1..Len(hooks) :
          /\ hooks[i].tp = RelationIndexType /\ hooks[i].op = "set"
          /\ committed.data[hooks[i].o.ns] # {}
          /\ data[hooks[i].o.ns] = {}

\* C8: after a successful DropTable(t) of a table with a docid sequence, that
\* sequence is neither in the cache nor in the catalog rows.
C8_DropTableDropsDocidSequence ==
    [][(ok("DropTable") /\ cache.tables[last'.a].docid # "") =>
          /\ cache.tables[last'.a].docid \notin DOMAIN cache'.sequences
          /\ cache.tables[last'.a].docid \notin DOMAIN rows']_vars

\* C9: DropIndex of an index with an owner fails and leaves the cache, the
\* catalog rows and the namespaces as they were; an index that DropIndex
\* removes has no owner.
C9_OwnedIndexNotDropped ==
    [][(last'.op = "DropIndex" /\ last'.a \in DOMAIN cache.indexes) =>
          /\ cache.indexes[last'.a].owner # NoOwner =>
                /\ last'.err # ErrNone
                /\ cache' = cache /\ rows' = rows /\ data' = data
          /\ last'.a \notin DOMAIN cache'.indexes =>
                cache.indexes[last'.a].owner = NoOwner]_vars

\* DropIndex was just refused for an owned index whose namespace holds a key
C9_Refused ==
    /\ last.op = "DropIndex" /\ last.err = ErrRefused
    /\ data[cache.indexes[last.a].ns] # {}

\* a call that added an index or a sequence given without a name
addedUnnamed ==
    /\ last'.op \in {"CreateIndex", "CreateSequence"}
    /\ last'.err = ErrNone
    /\ last'.a = ""

baseOfAdded ==
    IF last'.op = "CreateIndex"
    THEN GenerateBaseName(RelationIndexType, cache'.indexes[last'.res])
    ELSE GenerateBaseName(RelationSequenceType, cache'.sequences[last'.res])

\* the least n >= from such that base followed by n in decimal is unused in cc
LeastUnusedSuffix(cc, base, from) ==
    CHOOSE n \in from..(from + Cardinality(CacheNames(cc))) :
        /\ ~objectExists(cc, base \o ToString(n))
        /\ \A m \in from..(n - 1) : objectExists(cc, base \o ToString(m))

\* C10, as claimed: the name given to an unnamed object is its base name
\* followed by n, for the least n >= 0 that makes a name none of the maps has.
C10_NameIsBaseThenCounter ==
    [][addedUnnamed =>
          last'.res = baseOfAdded \o ToString(LeastUnusedSuffix(cache, baseOfAdded, 0))]_vars

\* C10, amended: the name is the base name itself when no map has it, and
\* otherwise the base name followed by n for the least n >= 1 that makes a
\* name none of the maps has.
C10_NameIsBaseOrBaseThenCounter ==
    [][addedUnnamed =>
          last'.res = IF ~objectExists(cache, baseOfAdded) THEN baseOfAdded
                      ELSE baseOfAdded \o ToString(LeastUnusedSuffix(cache, baseOfAdded, 1))]_vars

\* an unnamed index got a counter because a sequence has its base name
C10_CounterUsed ==
    /\ last.op = "CreateIndex" /\ last.a = "" /\ last.err = ErrNone
    /\ last.res = "t_a_idx1"
    /\ "t_a_idx" \in DOMAIN cache.sequences

---------------------------------------------------------------------------
(* Namespaces of a kv session *)

\* the namespace id of the store s as a map from keys to values
View(s, id) ==
    [k \in {SubSeq(key, 5, Len(key)) : key \in {x \in DOMAIN s : HasPrefix(x, id)}} |->
        s[Prefix(id) \o k]]

\* the keys of an iteration without their prefix, in the order of the iteration
Stripped(res) == [i \in 1..Len(res) |-> SubSeq(res[i], 5, Len(res[i]))]

Ascending(res) == \A i, j \in 1..Len(res) : i < j => BytesCompare(res[i], res[j]) < 0

Range(f) == {f[i] : i \in DOMAIN f}

\* C11: a namespace of a writable session is a finite map from non-empty keys
\* to non-empty values: Put with an empty or nil key or value fails and changes
\* nothing, a valid Put sets the key to the value, Get returns the value of a
\* present key and KeyNotFound for an absent one, Delete removes a present key
\* and fails with KeyNotFound on an absent one, a key just deleted is not found
\* by Delete or Get nor met by an iteration, an iteration yields the keys of
\* the map in order, and Truncate leaves the map empty.
C11_NamespaceIsMap ==
    [][~readOnly =>
        LET c == kvLast'
            m == View(pdb, c.id)
            m2 == View(pdb', c.id)
            k == Bytes(c.k)
        IN  /\ (c.op = "Put" /\ (BytesLen(c.k) = 0 \/ BytesLen(c.v) = 0)) =>
                  (c.err # ErrNone /\ pdb' = pdb)
            /\ (c.op = "Put" /\ BytesLen(c.k) > 0 /\ BytesLen(c.v) > 0) =>
                  (c.err = ErrNone /\ m2 = MapPut(m, k, c.v))
            /\ (c.op = "Get" /\ k \in DOMAIN m) => (c.err = ErrNone /\ c.res = m[k])
            /\ (c.op = "Get" /\ k \notin DOMAIN m) => c.err = ErrKeyNotFound
            /\ (c.op = "Delete" /\ k \in DOMAIN m) =>
                  (c.err = ErrNone /\ m2 = MapDelete(m, k))
            /\ (c.op = "Delete" /\ k \notin DOMAIN m) =>
                  (c.err = ErrKeyNotFound /\ pdb' = pdb)
            /\ (c.op = "Truncate") => (c.err = ErrNone /\ m2 = EmptyMap)
            /\ (c.op = "Iterate") =>
                  /\ c.err = ErrNone
                  /\ Range(Stripped(c.res)) = DOMAIN m
                  /\ Len(c.res) = Cardinality(DOMAIN m)
                  /\ Ascending(c.res)
            /\ (/\ kvLast.op = "Delete" /\ kvLast.err = ErrNone
                /\ c.id = kvLast.id) =>
                  /\ (c.op \in {"Get", "Delete"} /\ c.k = kvLast.k) => c.err = ErrKeyNotFound
                  /\ (c.op = "Iterate") => Bytes(kvLast.k) \notin Range(Stripped(c.res))]_vars

\* a key was just not found by Delete in a namespace that has another key
C11_DeleteOfAbsentKey ==
    /\ ~readOnly
    /\ kvLast.op = "Delete" /\ kvLast.err = ErrKeyNotFound
    /\ BytesLen(kvLast.k) > 0
    /\ View(pdb, kvLast.id) # EmptyMap

\* C12: Put, Delete and Truncate on a namespace leave what Get and iteration
\* give on the namespaces of other ids as it was, and Get of a key that its
\* own namespace does not hold is KeyNotFound whatever the others hold.
C12_NamespacesIsolated ==
    [][/\ \A id \in KvIds :
            (kvLast'.op \in {"Put", "Delete", "Truncate"} /\ kvLast'.id # id) =>
                /\ NsIterate(pdb', id).res = NsIterate(pdb, id).res
                /\ \A k \in KvKeys :
                      /\ NsGet(pdb', id, k).err = NsGet(pdb, id, k).err
                      /\ NsGet(pdb', id, k).res = NsGet(pdb, id, k).res
       /\ (kvLast'.op = "Get" /\ Bytes(kvLast'.k) \notin DOMAIN View(pdb, kvLast'.id)) =>
            kvLast'.err = ErrKeyNotFound]_vars

\* a namespace was just truncated while another one holds a key that it had,
\* and still has it
C12_TruncatedBesideAnother ==
    /\ kvLast.op = "Truncate" /\ kvLast.err = ErrNone
    /\ \E id \in KvIds \ {kvLast.id} : View(pdb, id) # EmptyMap

\* C13: in a read-only session Put, Delete and Truncate fail and leave the
\* store as it was, also with valid arguments and for keys that exist, while
\* Get returns the value of a key that exists and an iteration yields the keys.
C13_ReadOnlyRefusesWrites ==
    [][readOnly =>
        LET c == kvLast'
            m == View(pdb, c.id)
        IN  /\ (c.op \in {"Put", "Delete", "Truncate"}) => (c.err # ErrNone /\ pdb' = pdb)
            /\ (c.op = "Get" /\ Bytes(c.k) \in DOMAIN m) =>
                  (c.err = ErrNone /\ c.res = m[Bytes(c.k)])
            /\ (c.op = "Iterate") =>
                  (c.err = ErrNone /\ Range(Stripped(c.res)) = DOMAIN m)]_vars

\* Delete of a key that exists was just refused in a read-only session
C13_DeleteRefused ==
    /\ readOnly
    /\ kvLast.op = "Delete" /\ kvLast.err # ErrNone
    /\ Bytes(kvLast.k) \in DOMAIN View(pdb, kvLast.id)

---------------------------------------------------------------------------
(* Keys *)

\* a comes before b in the lexicographic order of sequences of numbers
LexLess(a, b) ==
    \E i \in 1..(Len(a) + 1) :
        /\ i <= Len(b)
        /\ \A j \in 1..(i - 1) : a[j] = b[j]
        /\ (i = Len(a) + 1 \/ a[i] < b[i])

Cmp(a, b) == IF a = b THEN 0 ELSE IF LexLess(a, b) THEN -1 ELSE 1

IsZero(x) == SubSeq(x.v, 2, 5) = <<0, 0, 0, 0>>

\* the comparison of two values of one kind: booleans false first, integers
\* and doubles as numbers (the two zeros of the doubles equal), texts and
\* blobs byte by byte
LogicalCompare(x, y) ==
    IF x.t = NullValue THEN 0
    ELSE IF x.t # DoubleValue THEN Cmp(x.v, y.v)
    ELSE IF IsZero(x) /\ IsZero(y) THEN 0
    ELSE IF x.v[1] # y.v[1] THEN (IF x.v[1] = 1 THEN -1 ELSE 1)
    ELSE IF x.v[1] = 0 THEN Cmp(SubSeq(x.v, 2, 5), SubSeq(y.v, 2, 5))
    ELSE Cmp(SubSeq(y.v, 2, 5), SubSeq(x.v, 2, 5))

\* the same with -0.0 before 0.0
SignedZeroCompare(x, y) ==
    IF x.t = DoubleValue /\ IsZero(x) /\ IsZero(y) THEN Cmp(<<y.v[1]>>, <<x.v[1]>>)
    ELSE LogicalCompare(x, y)

\* component-wise lexicographic comparison of two tuples of the same length
RECURSIVE TupleCompare(_, _)
TupleCompare(a, b) ==
    IF a = <<>> THEN 0
    ELSE IF LogicalCompare(Head(a), Head(b)) # 0 THEN LogicalCompare(Head(a), Head(b))
    ELSE TupleCompare(Tail(a), Tail(b))

RECURSIVE TupleCompareSignedZero(_, _)
TupleCompareSignedZero(a, b) ==
    IF a = <<>> THEN 0
    ELSE IF SignedZeroCompare(Head(a), Head(b)) # 0 THEN SignedZeroCompare(Head(a), Head(b))
    ELSE TupleCompareSignedZero(Tail(a), Tail(b))

Encoded == keyOut # NotEncoded /\ keyOut[1].err = ErrNone /\ keyOut[2].err = ErrNone

\* C14, as claimed: the keys of two tuples of values of the same kinds compare
\* byte by byte as the tuples compare component by component.
C14_KeyOrderIsLogicalOrder ==
    Encoded => BytesCompare(keyOut[1].key, keyOut[2].key) = TupleCompare(keyIn[1], keyIn[2])

\* C14, amended: the same, with the double -0.0 before 0.0 in the order of the
\* keys although the two compare equal.
C14_KeyOrderIsLogicalOrderSignedZero ==
    Encoded =>
        BytesCompare(keyOut[1].key, keyOut[2].key) = TupleCompareSignedZero(keyIn[1], keyIn[2])

\* the keys of two pairs were compared that begin with a negative and a
\* non-negative integer
C14_NegativeBeforeNonNegative ==
    /\ Encoded
    /\ Len(keyIn[1]) = 2
    /\ keyIn[1][1].t = IntegerValue
    /\ keyIn[1][1].v[1] < 0 /\ keyIn[2][1].v[1] >= 0
    /\ Less(keyOut[1].key, keyOut[2].key)

ValueTypes == {NullValue, BoolValue, IntegerValue, DoubleValue, TextValue, BlobValue}

\* NewMinKeyForType(t) <= key < NewMaxKeyForType(t)
InTypeInterval(key, t) ==
    /\ ~Less(key, NewMinKeyForType(t))
    /\ Less(key, NewMaxKeyForType(t))

\* C15: a key of NewKey lies in the interval of NewMinKeyForType and
\* NewMaxKeyForType of the type of its first value, and in the interval of no
\* other type.
C15_TypeIntervalHoldsItsKeys ==
    Encoded =>
        \A i \in {1, 2} : \A t \in ValueTypes :
            InTypeInterval(keyOut[i].key, t) <=> (keyIn[i][1].t = t)

---------------------------------------------------------------------------
(* Properties of the prepared pipelines *)

Prepared == planOut # NotPrepared

\* the operators of the given names, in the order of the pipeline
Only(ops, names) == SelectSeq(ops, LAMBDA o : o.op \in names)

\* the arguments of the operators of one name, in the order of the pipeline
ArgsOf(ops, name) ==
    [i \in 1 .. Len(Only(ops, {name})) |-> Only(ops, {name})[i].arg]

NamesOf(ops) == [i \in 1 .. Len(ops) |-> ops[i].op]

UpdateSet == Prepared /\ planIn.stmt.kind = "UPDATE" /\ planIn.stmt.SetPairs # <<>> /\ planIn.c.known

UpdateUnset == Prepared /\ planIn.stmt.kind = "UPDATE" /\ planIn.stmt.SetPairs = <<>> /\ planIn.c.known

SetsPrimaryKey == Range(planIn.stmt.SetPairs) \cap Range(planIn.c.pk) # {}

\* C16: the pipeline of UPDATE SET writes the table with TableDelete followed
\* by TableInsert if and only if a SET path is a path of the declared primary
\* key, and otherwise with one TableReplace and neither of the two; without
\* a declared primary key it is always TableReplace.
C16_WriteFormFollowsPrimaryKey ==
    UpdateSet =>
        LET writes == NamesOf(Only(planOut.ops, {"TableDelete", "TableInsert", "TableReplace"}))
        IN  /\ planOut.err = ErrNone
            /\ SetsPrimaryKey => writes = <<"TableDelete", "TableInsert">>
            /\ ~SetsPrimaryKey => writes = <<"TableReplace">>
            /\ planIn.c.pk = <<>> => writes = <<"TableReplace">>

\* a SET of the second path of a two-field primary key gave TableDelete and TableInsert
C16_KeyPathSet ==
    /\ UpdateSet
    /\ planIn.c.pk = <<<<"a">>, <<"b">>>>
    /\ planIn.stmt.SetPairs = <<<<"c">>, <<"b">>>>
    /\ NamesOf(Only(planOut.ops, {"TableDelete", "TableInsert", "TableReplace"}))
           = <<"TableDelete", "TableInsert">>

UnsetsKeyField == \E f \in Range(planIn.stmt.UnsetFields) : <<f>> \in Range(planIn.c.pk)

\* C17: Prepare of UPDATE UNSET fails with "cannot unset primary key path"
\* and builds no pipeline if a field of the list is a path of the table's
\* primary key; otherwise the pipeline has one PathsUnset per field, in the
\* order of the statement. Prepare changes nothing else.
C17_UnsetProtectsPrimaryKey ==
    UpdateUnset =>
        /\ UnsetsKeyField => planOut = PlanResult(<<>>, ErrUnsetPrimaryKey)
        /\ ~UnsetsKeyField =>
            /\ planOut.err = ErrNone
            /\ ArgsOf(planOut.ops, "PathsUnset") = Wrap(planIn.stmt.UnsetFields)

\* UNSET of a free field and then of a key field was refused
C17_SecondFieldRefused ==
    /\ UpdateUnset
    /\ planIn.c.pk = <<<<"a">>>>
    /\ planIn.stmt.UnsetFields = <<"c", "a">>
    /\ planOut.err = ErrUnsetPrimaryKey

\* the place of an operator in the skeleton of a mutating pipeline
Phase(name) ==
    CASE name = "TableScan" -> 1
      [] name = "DocsFilter" -> 2
      [] name \in {"DocsTempTreeSort", "DocsTempTreeSortReverse", "PathsSet", "PathsUnset"} -> 3
      [] name \in {"DocsSkip", "TableValidate"} -> 4
      [] name = "DocsTake" -> 5
      [] name = "IndexDelete" -> 6
      [] name \in {"TableDelete", "TableReplace"} -> 7
      [] name = "TableInsert" -> 8
      [] name = "IndexInsert" -> 9

DeleteOps == {"TableScan", "DocsFilter", "DocsTempTreeSort", "DocsTempTreeSortReverse",
              "DocsSkip", "DocsTake", "IndexDelete", "TableDelete"}

UpdateOps == {"TableScan", "DocsFilter", "PathsSet", "PathsUnset", "TableValidate",
              "IndexDelete", "TableDelete", "TableReplace", "TableInsert", "IndexInsert"}

\* the operators that a pipeline holds once at most
Single == {"TableScan", "DocsFilter", "DocsTempTreeSort", "DocsTempTreeSortReverse",
           "DocsSkip", "DocsTake", "TableValidate", "TableDelete", "TableReplace", "TableInsert"}

---------------------------------------------------------------------------
(* Properties of the rows and the index entries *)

\* the entries of an index obtained from the rows of its table as given
ScanOf(ts, name) ==
    LET docs == ts[IndexInfoOf[name].TableName].rows
    IN  {<<ValuesAt(docs[x], IndexInfoOf[name].Paths), x>> : x \in DOMAIN docs}

\* the indexes REINDEX is asked to rebuild
TargetsOf(name) ==
    IF name = "" THEN DOMAIN IndexInfoOf
    ELSE IF name \in DOMAIN TableInfoOf
    THEN {n \in DOMAIN IndexInfoOf : IndexInfoOf[n].TableName = name}
    ELSE {name} \cap DOMAIN IndexInfoOf

\* C19: a REINDEX that ran to completion leaves in each of its target indexes
\* (all of them for no name, those of the table for a table name, the one
\* index for an index name) exactly the entries (indexed values, key) of the
\* rows of the owning table, whatever the index held before; a name that is
\* neither a table nor an index gives a not-found error and no index changes.
C19_ReIndexRestores ==
    [][dmlLast'.op = "REINDEX" =>
        /\ dmlLast'.err = ErrNone =>
            \A n \in TargetsOf(dmlLast'.name) : entries'[n] = ScanOf(tabs', n)
        /\ dmlLast'.name \notin {""} \cup DOMAIN TableInfoOf \cup DOMAIN IndexInfoOf =>
            /\ dmlLast'.err = ErrNotFound
            /\ entries' = entries
        /\ tabs' = tabs]_vars

\* REINDEX of table t ran to completion over two rows and changed an index
C19_TableReindexed ==
    /\ dmlLast = DmlNote("REINDEX", "t", "changed", ErrNone)
    /\ Cardinality(DOMAIN tabs["t"].rows) = 2
    /\ entries["i"] = ScanOf(tabs, "i")
    /\ entries["j"] = ScanOf(tabs, "j")

\* C20: after INSERT, UPDATE and DELETE statements that all completed, every
\* index holds exactly one entry per row of its table, made of the row's
\* values at the indexed paths and the row's key, and nothing else; in a
\* unique index no two keys share their values.
C20_IndexInvariant ==
    dmlLast.err = ErrNone =>
        \A n \in DOMAIN IndexInfoOf :
            /\ entries[n] = ScanOf(tabs, n)
            /\ IndexInfoOf[n].Unique =>
                \A e, f \in entries[n] : e[1] = f[1] => e[2] = f[2]

\* an UPDATE in the delete+insert form completed on a table with two rows
C20_KeyMoved ==
    /\ dmlLast = DmlNote("UPDATE", "t", "delete+insert", ErrNone)
    /\ Cardinality(DOMAIN tabs["t"].rows) = 2
    /\ \E x \in DOMAIN tabs["t"].rows : tabs["t"].rows[x].a = NoField

---------------------------------------------------------------------------
(* Properties of the scan that feeds a writing pipeline *)

---------------------------------------------------------------------------
(* Properties of the index selection *)

\* SelectIndex ran and reached the candidates
Chose == selOut.rule = "SelectIndex" /\ selOut.cands # <<>>

\* the cost of a candidate as the planner's documentation gives it
CostOf(c) ==
    c.rangesCost + (IF c.isIndex THEN 20 ELSE 0) - (IF c.isUnique THEN 10 ELSE 0)
        - Len(c.nodes)

\* x is a strictly better choice than y: more filters, or as many at a lower cost
StrictlyBetter(x, y) ==
    \/ Len(x.nodes) > Len(y.nodes)
    \/ Len(x.nodes) = Len(y.nodes) /\ CostOf(x) < CostOf(y)

\* the candidates that associated a filter
Live(cands) == {n \in 1 .. Len(cands) : ~cands[n].nil}

\* the candidates are those of the primary key, then of the indexes in the
\* order of ListIndexes; the chosen one is the first that no other beats
ChoiceRule ==
    Chose =>
        LET cands == selOut.cands
            catalog == selIn.Catalog
        IN  /\ [n \in 1 .. Len(cands) |-> cands[n].replaceRootBy.name]
                   = (IF catalog.pk = <<>> THEN <<>> ELSE <<catalog.TableName>>)
                     \o [n \in 1 .. Len(catalog.indexes) |-> catalog.indexes[n].IndexName]
            /\ \A n \in 1 .. Len(cands) : cands[n].isIndex = (catalog.pk = <<>> \/ n > 1)
            /\ IF Live(cands) = {} THEN selOut.selected.nil
               ELSE \E i \in Live(cands) :
                       /\ selOut.selected = cands[i]
                       /\ \A j \in Live(cands) :
                           /\ ~StrictlyBetter(cands[j], cands[i])
                           /\ j < i => StrictlyBetter(cands[i], cands[j])

\* C22 as stated: the choice rule, and no non-unique index that covers one
\* filter is chosen when a unique index covers one filter too
C22_UniqueIndexAlwaysPreferred ==
    /\ ChoiceRule
    /\ Chose =>
        ~ /\ selOut.selected.isIndex /\ ~selOut.selected.isUnique
          /\ Len(selOut.selected.nodes) = 1
          /\ \E n \in Live(selOut.cands) :
                selOut.cands[n].isUnique /\ Len(selOut.cands[n].nodes) = 1

\* C22: the candidates are considered primary key first, then the indexes in
\* name order; the chosen one associates the most filters, at the least cost
\* (rangesCost + 20 for an index - 10 if unique - number of filters) among
\* those, the earlier one on a tie; so no non-unique index that covers one
\* filter is chosen when a unique index covers one filter with ranges that
\* cost no more
C22_MostFiltersThenLeastCost ==
    /\ ChoiceRule
    /\ Chose =>
        ~ /\ selOut.selected.isIndex /\ ~selOut.selected.isUnique
          /\ Len(selOut.selected.nodes) = 1
          /\ \E n \in Live(selOut.cands) :
                /\ selOut.cands[n].isUnique /\ Len(selOut.cands[n].nodes) = 1
                /\ selOut.cands[n].rangesCost <= selOut.selected.rangesCost

\* a unique index took the place of a non-unique index earlier in the order,
\* both with one filter and ranges of the same cost
C22_UniqueIndexChosen ==
    /\ Chose
    /\ selOut.selected.isUnique /\ Len(selOut.selected.nodes) = 1
    /\ \E n, m \in Live(selOut.cands) :
        /\ n < m
        /\ selOut.cands[m] = selOut.selected
        /\ selOut.cands[n].isIndex /\ ~selOut.cands[n].isUnique
        /\ Len(selOut.cands[n].nodes) = 1
        /\ CostOf(selOut.cands[n]) = CostOf(selOut.selected) + 10

\* the first of the indexable filters on a path, or none
FirstOn(p) ==
    LET ns == selOut.nodes
    IN  IF \E n \in 1 .. Len(ns) : ns[n].path = p
        THEN ns[CHOOSE n \in 1 .. Len(ns) :
                    ns[n].path = p /\ \A m \in 1 .. n - 1 : ns[m].path # p]
        ELSE NoFilterNode

EqOrIn(f) == f.operator \in {"=", "IN"}

RECURSIVE Product(_)
Product(ns) == IF ns = <<>> THEN 1 ELSE Head(ns) * Product(Tail(ns))

\* the number of operands a filter brings: the length of the list of IN, else one
Width(f) == IF f.operator = "IN" THEN Len(f.operand.sub) ELSE 1

\* the operand of a filter at a place of its list
OperandAt(f, place) == IF f.operator = "IN" THEN f.operand.sub[place] ELSE f.operand

\* the place in the list of filter i that combination r (counted from 1)
\* takes, the last filter varying fastest
PlaceIn(fs, i, r) ==
    (((r - 1) \div Product([j \in 1 .. Len(fs) - i |-> Width(fs[i + j])])) % Width(fs[i])) + 1

HasIn(c) == \E i \in 1 .. Len(c.nodes) : c.nodes[i].operator = "IN"

\* C24: a candidate that associates a filter using IN associates only = and
\* IN filters, and its scan has one exact range for each combination of the
\* elements of the IN lists with the operands of the = filters: as many
\* ranges as the product of the lengths of the lists, each with the
\* combination as min in the order of the index paths and no max, the
\* combinations in lexicographic order of the places in the lists; when it
\* is chosen the indexable range filters stay in the stream
C24_InExpansion ==
    Chose =>
        \A n \in 1 .. Len(selOut.cands) :
            LET c == selOut.cands[n]
                fs == c.nodes
                rs == c.replaceRootBy.ranges
            IN  HasIn(c) =>
                /\ \A i \in 1 .. Len(fs) : EqOrIn(fs[i])
                /\ Len(rs) = Product([i \in 1 .. Len(fs) |-> Width(fs[i])])
                /\ \A r \in 1 .. Len(rs) :
                    /\ rs[r].Exact /\ ~rs[r].Exclusive /\ rs[r].Max = <<>>
                    /\ rs[r].Paths = SubSeq(c.paths, 1, Len(fs))
                    /\ rs[r].Min = [i \in 1 .. Len(fs) |-> OperandAt(fs[i], PlaceIn(fs, i, r))]
                /\ c = selOut.selected =>
                    \A i \in 1 .. Len(selOut.nodes) :
                        ~EqOrIn(selOut.nodes[i]) =>
                            \E m \in 1 .. Len(selOut.Stream) :
                                selOut.Stream[m] = selIn.Stream[selOut.nodes[i].node]

\* the chosen index has two IN filters with two elements or more each, and a
\* range filter on its third path stayed a DocsFilter
C24_TwoListsExpanded ==
    /\ Chose
    /\ Len(selOut.selected.nodes) = 2
    /\ \A i \in 1 .. 2 : selOut.selected.nodes[i].operator = "IN"
                         /\ Width(selOut.selected.nodes[i]) >= 2
    /\ Len(selOut.selected.paths) = 3
    /\ FirstOn(selOut.selected.paths[3]) # NoFilterNode
    /\ Len(selOut.Stream) = 2

\* the operands of the filters of a candidate, in the order of the paths
OperandsOf(c) == [i \in 1 .. Len(c.nodes) |-> c.nodes[i].operand]

\* the bounds of the BETWEEN of a filter, as its DocsFilter has them
BoundsOf(f) == SubSeq(selIn.Stream[f.node].expr.sub, 1, 2)

\* C25: a candidate without IN has a single range over the paths of its
\* filters f1..fk; the operator of fk gives its shape: = the operands as
\* min, exact; > as min, exclusive; >= as min; < as max, exclusive; <= as
\* max; BETWEEN the operands of f1..fk-1 followed by the low bound as min and
\* by the high bound as max, neither exact nor exclusive
C25_RangeShape ==
    Chose =>
        \A n \in 1 .. Len(selOut.cands) :
            LET c == selOut.cands[n]
                k == Len(c.nodes)
                rs == c.replaceRootBy.ranges
                tok == c.nodes[k].operator
                el == OperandsOf(c)
                before == SubSeq(el, 1, k - 1)
            IN  (~c.nil /\ ~HasIn(c)) =>
                /\ Len(rs) = 1
                /\ rs[1].Paths = [i \in 1 .. k |-> c.paths[i]]
                /\ tok \in {"=", ">", ">=", "<", "<=", "BETWEEN"}
                /\ tok = "=" => rs[1] = ScanRange(rs[1].Paths, el, <<>>, TRUE, FALSE)
                /\ tok = ">" => rs[1] = ScanRange(rs[1].Paths, el, <<>>, FALSE, TRUE)
                /\ tok = ">=" => rs[1] = ScanRange(rs[1].Paths, el, <<>>, FALSE, FALSE)
                /\ tok = "<" => rs[1] = ScanRange(rs[1].Paths, <<>>, el, FALSE, TRUE)
                /\ tok = "<=" => rs[1] = ScanRange(rs[1].Paths, <<>>, el, FALSE, FALSE)
                /\ tok = "BETWEEN" =>
                    rs[1] = ScanRange(rs[1].Paths,
                                      Append(before, BoundsOf(c.nodes[k])[1]),
                                      Append(before, BoundsOf(c.nodes[k])[2]),
                                      FALSE, FALSE)

\* the chosen index has an = filter and then a BETWEEN with two distinct
\* bounds: min and max share the first operand
C25_BetweenAfterEquality ==
    /\ Chose
    /\ Len(selOut.selected.nodes) = 2
    /\ selOut.selected.nodes[2].operator = "BETWEEN"
    /\ LET r == selOut.Stream[1].ranges[1]
       IN  Len(r.Min) = 2 /\ Len(r.Max) = 2 /\ r.Min[1] = r.Max[1] /\ r.Min[2] # r.Max[2]

\* an expression that SelectIndex may serve from an index, as documented
Indexable(e) ==
    /\ e.kind = "Operator"
    /\ e.tok \in {"=", ">", ">=", "<", "<=", "IN", "BETWEEN"}
    /\ CASE e.tok = "IN" ->
                /\ e.sub[1].kind = "Path"
                /\ e.sub[2].kind = "LiteralExprList"
                /\ ~exprContainsPath(e.sub[2])
         [] e.tok = "BETWEEN" ->
                /\ e.sub[3].kind = "Path"
                /\ ~exprContainsPath(e.sub[1])
                /\ ~exprContainsPath(e.sub[2])
         [] OTHER ->
                \/ e.sub[1].kind = "Path" /\ ~exprContainsPath(e.sub[2])
                \/ e.sub[2].kind = "Path" /\ ~exprContainsPath(e.sub[1])

\* the places of the filters that selectIndex kept as filter nodes
Considered == {selOut.nodes[i].node : i \in 1 .. Len(selOut.nodes)}

\* C26: of the DocsFilters that SelectIndex looks at, those it considers for
\* an index are exactly those whose expression is one of =, >, >=, <, <=, IN,
\* BETWEEN with a path on one side and no path in the other operand (IN: the
\* path on the left and a literal list on the right; BETWEEN: the tested
\* operand a path, the bounds without path); the node has that path; when
\* none is considered the stream is left as it was
C26_IndexableFilters ==
    Chose =>
        /\ \A i \in 1 .. Len(Filters(selIn.Stream)) :
            LET n == Filters(selIn.Stream)[i]
            IN  n \in Considered <=> Indexable(selIn.Stream[n].expr)
        /\ \A i \in 1 .. Len(selOut.nodes) :
            LET e == selIn.Stream[selOut.nodes[i].node].expr
            IN  \E m \in 1 .. Len(e.sub) :
                    e.sub[m].kind = "Path" /\ selOut.nodes[i].path = NewPath(e.sub[m].name)
        /\ Considered = {} => selOut.Stream = selIn.Stream

\* 1 IN a alone after the scan of a table with an index on (a): not
\* considered, the stream is unchanged
C26_PathOnTheRightOfIn ==
    /\ Chose
    /\ Len(selIn.Stream) = 2
    /\ selIn.Stream[2].expr = Operator("IN", LiteralValue(1), PathExpr("a"))
    /\ selOut.nodes = <<>>
    /\ selOut.Stream = selIn.Stream

\* the places of the filters of the chosen candidate
Removed == {selOut.selected.nodes[i].node : i \in 1 .. Len(selOut.selected.nodes)}

\* the places after the scan that are not removed, ascending
Residual == Ascend((2 .. Len(selIn.Stream)) \ Removed)

\* C27: when a candidate is chosen, the stream is the new scan followed by
\* the operators of the old stream after its scan, in their order, without
\* the DocsFilters of the chosen candidate's filters and with every other
\* operator; the scan is TableScan of the table for the candidate of the
\* primary key and IndexScan of the index otherwise, with the candidate's
\* ranges
C27_ResidualPipeline ==
    (Chose /\ ~selOut.selected.nil) =>
        LET c == selOut.selected
            out == selOut.Stream
        IN  /\ \A n \in Removed : n \in 2 .. Len(selIn.Stream)
                                  /\ selIn.Stream[n].op = "DocsFilter"
            /\ Cardinality(Removed) = Len(c.nodes)
            /\ Len(out) = 1 + Len(Residual)
            /\ \A i \in 1 .. Len(Residual) : out[i + 1] = selIn.Stream[Residual[i]]
            /\ out[1].op = (IF c.isIndex THEN "IndexScan" ELSE "TableScan")
            /\ ~c.isIndex => out[1].name = selIn.Catalog.TableName
            /\ c.isIndex => \E n \in 1 .. Len(selIn.Catalog.indexes) :
                                /\ out[1].name = selIn.Catalog.indexes[n].IndexName
                                /\ c.paths = selIn.Catalog.indexes[n].Paths
            /\ out[1].ranges = c.replaceRootBy.ranges
            /\ out[1].expr = NoExpr

\* an index was chosen for the first filter on a path; a second filter on
\* that path and a DocsProject stayed behind the IndexScan, in their order
C27_SecondFilterOnPathStays ==
    /\ Chose
    /\ selOut.selected.isIndex
    /\ Len(selOut.Stream) = 3
    /\ selOut.Stream[2].op = "DocsFilter"
    /\ selOut.Stream[2].expr.kind = "Operator"
    /\ selOut.Stream[2].expr.sub[1] = PathExpr(selOut.selected.nodes[1].path[1])
    /\ selOut.Stream[3] = DocsProject

\* C28: SelectIndex changes a stream only if its head is a TableScan
\* without ranges and a DocsFilter is in it; with another head, with a
\* TableScan that has ranges, without filter or without a filter that the
\* primary key or an index can take, the stream stays as it was
C28_OnlyPlainTableScanIsRewritten ==
    selOut.rule = "SelectIndex" =>
        /\ selOut.Stream # selIn.Stream =>
            /\ selIn.Stream # <<>>
            /\ selIn.Stream[1].op = "TableScan"
            /\ selIn.Stream[1].ranges = <<>>
            /\ \E n \in 2 .. Len(selIn.Stream) : selIn.Stream[n].op = "DocsFilter"
        /\ (Chose /\ \A n \in 1 .. Len(selOut.cands) : selOut.cands[n].nil) =>
            selOut.Stream = selIn.Stream

---------------------------------------------------------------------------
(* Properties of the rules of the optimizer *)

RECURSIVE Conjuncts(_)
Conjuncts(e) ==
    IF e.kind = "Operator" /\ e.tok = "AND"
    THEN Conjuncts(e.sub[1]) \o Conjuncts(e.sub[2])
    ELSE <<e>>

\* a stream with each DocsFilter replaced by the filters of its conjuncts
RECURSIVE Flat(_)
Flat(s) ==
    IF s = <<>> THEN <<>>
    ELSE (IF Head(s).op = "DocsFilter"
          THEN [n \in 1 .. Len(Conjuncts(Head(s).expr)) |->
                   DocsFilter(Conjuncts(Head(s).expr)[n])]
          ELSE <<Head(s)>>)
         \o Flat(Tail(s))

\* C29: after SplitANDConditionRule no DocsFilter has an AND at the top, and
\* the stream is the old one with each DocsFilter of a (nested) AND replaced,
\* where it was, by the DocsFilters of its conjuncts from left to right;
\* the filters without AND at the top and the other operators are where
\* they were
C29_AndSplit ==
    selOut.rule = "SplitANDConditionRule" =>
        /\ \A n \in 1 .. Len(selOut.Stream) :
            selOut.Stream[n].op = "DocsFilter" =>
                ~(selOut.Stream[n].expr.kind = "Operator" /\ selOut.Stream[n].expr.tok = "AND")
        /\ selOut.Stream = Flat(selIn.Stream)
        /\ (\A n \in 1 .. Len(selIn.Stream) : Len(Conjuncts(selIn.Stream[n].expr)) = 1) =>
            selOut.Stream = selIn.Stream

\* a filter of two ANDs under an AND became four filters, between the
\* operators that were before and after it
C29_NestedAndSplit ==
    /\ selOut.rule = "SplitANDConditionRule"
    /\ Len(selIn.Stream) = 4
    /\ selIn.Stream[2] = DocsProject
    /\ Len(Conjuncts(selIn.Stream[3].expr)) = 4
    /\ selIn.Stream[4].op = "DocsFilter" /\ Len(Conjuncts(selIn.Stream[4].expr)) = 1
    /\ Len(selOut.Stream) = 7
    /\ selOut.Stream[2] = DocsProject
    /\ selOut.Stream[7] = selIn.Stream[4]

\* a constant expression that is truthy, one that is not
ConstantTruthy(e) == e.kind = "LiteralValue" /\ e.val # 0
ConstantFalsy(e) == e.kind = "LiteralValue" /\ e.val = 0

\* IN over a path with a constant empty array
InEmptyArray(e) ==
    /\ e.kind = "Operator" /\ e.tok = "IN"
    /\ e.sub[1].kind = "Path"
    /\ e.sub[2].kind = "LiteralValue" /\ e.sub[2].name = "array" /\ e.sub[2].val = 0

\* the places of the stream whose operator is not a DocsFilter of a truthy constant
Staying ==
    Ascend({n \in 1 .. Len(selIn.Stream) :
               ~(selIn.Stream[n].op = "DocsFilter" /\ ConstantTruthy(selIn.Stream[n].expr))})

\* C30: after RemoveUnnecessaryFilterNodesRule the stream is empty if a
\* DocsFilter has a constant falsy expression or is an IN over a path with a
\* constant empty array; else it is the old stream without the DocsFilters
\* of a constant truthy expression, every other operator (the filters that
\* are not constant among them) where it was
C30_VacuousFilters ==
    selOut.rule = "RemoveUnnecessaryFilterNodesRule" =>
        IF \E n \in 1 .. Len(selIn.Stream) :
              /\ selIn.Stream[n].op = "DocsFilter"
              /\ ConstantFalsy(selIn.Stream[n].expr) \/ InEmptyArray(selIn.Stream[n].expr)
        THEN selOut.Stream = <<>>
        ELSE selOut.Stream = [i \in 1 .. Len(Staying) |-> selIn.Stream[Staying[i]]]

\* a truthy constant was removed between two filters that stayed, one of
\* them an IN with an array that is not empty
C30_TruthyRemovedBetweenFilters ==
    /\ selOut.rule = "RemoveUnnecessaryFilterNodesRule"
    /\ Len(selIn.Stream) = 4
    /\ ConstantTruthy(selIn.Stream[3].expr)
    /\ selOut.Stream = <<selIn.Stream[1], selIn.Stream[2], selIn.Stream[4]>>
    /\ selIn.Stream[2].expr.tok = "IN"
    /\ selIn.Stream[4].expr.kind = "Path"

---------------------------------------------------------------------------
(* Properties of the catalog calls that fail or repeat *)

\* C37: a RenameTable that returns an error leaves the cache maps and the
\* catalog rows as they were before the call.
C37_FailedRenameChangesNothing ==
    [][(last'.op = "RenameTable" /\ last'.err # ErrNone) =>
          (cache' = cache /\ rows' = rows)]_vars

\* C39: AddFieldConstraint that returns an error leaves the cached table
\* info and the catalog row of the table as they were; when it succeeds the
\* cache entry and the catalog row hold the old field constraints followed
\* by the new one, and nothing else of the table changed.
C39_AddFieldConstraintAllOrNothing ==
    [][(last'.op = "AddFieldConstraint" /\ last'.a \in DOMAIN cache.tables) =>
          LET t == last'.a
              old == cache.tables[t]
              new == [old EXCEPT !.fcs = IF last'.b = "" THEN @ ELSE Append(@, last'.b)]
          IN  /\ last'.err # ErrNone => (cache' = cache /\ rows' = rows)
              /\ (\E i \in 1..Len(old.fcs) : old.fcs[i] = last'.b) => last'.err # ErrNone
              /\ last'.err = ErrNone =>
                    /\ cache'.tables[t] = new
                    /\ rows'[t] = tableInfoToDocument(new)
                    /\ \A n \in (DOMAIN cache.tables) \ {t} :
                          cache'.tables[n] = cache.tables[n]]_vars

\* a second field constraint was added to a table, after the first
C39_SecondFieldAdded ==
    /\ last.op = "AddFieldConstraint" /\ last.err = ErrNone
    /\ last.a \in DOMAIN cache.tables
    /\ Len(cache.tables[last.a].fcs) = 2
    /\ cache.tables[last.a].fcs[2] = last.b

\* C40: Init on a catalog whose cache has the store sequence returns no
\* error and leaves the cache, the catalog rows, the sequence table (the
\* current value of the store sequence with it) and the hooks as they were;
\* one store sequence is in the cache and in the rows, and no table or index
\* has a namespace above the current value, so the next one is greater.
C40_InitIdempotent ==
    [][(last'.op = "Init" /\ StoreSequence \in DOMAIN cache.sequences) =>
          /\ last'.err = ErrNone
          /\ cache' = cache /\ rows' = rows /\ seqTable' = seqTable /\ hooks' = hooks
          /\ StoreSequence \in DOMAIN cache'.sequences
          /\ StoreSequence \in DOMAIN rows'
          /\ \A x \in StoreObjects(cache') : x.ns <= seqTable'[StoreSequence]]_vars

\* Init ran again after the store sequence had handed out two namespaces
C40_InitAfterAllocations ==
    /\ last.op = "Init" /\ calls = 3
    /\ seqTable[StoreSequence] = StoreSeqStart + 1

---------------------------------------------------------------------------
(* Properties of the statements that a constraint stops *)

ConstraintViolations == {"PRIMARY KEY", "UNIQUE", "NOT NULL", "CHECK"}

\* C38: after an INSERT, UPDATE or DELETE that a constraint violation
\* stopped, every index still holds exactly one entry per row of its table,
\* made of the row's current values at the indexed paths and the row's key.
C38_IndexInvariantAfterViolation ==
    dmlLast.err \in ConstraintViolations =>
        \A n \in DOMAIN IndexInfoOf : entries[n] = ScanOf(tabs, n)

---------------------------------------------------------------------------
(* Properties of the ranges and of the rows they give *)

\* the DocsFilter of f is a comparison with the expression on the left and
\* the path on the right
PathOnRight(f) ==
    LET e == selIn.Stream[f.node].expr
    IN  /\ e.tok \in {"<", "<=", ">", ">="}
        /\ e.sub[2].kind = "Path"
        /\ e.sub[1].kind # "Path"

\* C33: the range of a candidate whose last filter is E op P, op among <,
\* <=, >, >=, bounds P on the side that E op P requires: E < P from below by
\* E, exclusive; E <= P from below, inclusive; E > P from above, exclusive;
\* E >= P from above, inclusive.
C33_OperandOrientation ==
    Chose =>
        \A n \in 1 .. Len(selOut.cands) :
            LET c == selOut.cands[n]
                k == Len(c.nodes)
                rs == c.replaceRootBy.ranges
                tok == c.nodes[k].operator
                el == OperandsOf(c)
            IN  (~c.nil /\ ~HasIn(c) /\ PathOnRight(c.nodes[k])) =>
                /\ Len(rs) = 1
                /\ tok = "<" => rs[1] = ScanRange(rs[1].Paths, el, <<>>, FALSE, TRUE)
                /\ tok = "<=" => rs[1] = ScanRange(rs[1].Paths, el, <<>>, FALSE, FALSE)
                /\ tok = ">" => rs[1] = ScanRange(rs[1].Paths, <<>>, el, FALSE, TRUE)
                /\ tok = ">=" => rs[1] = ScanRange(rs[1].Paths, <<>>, el, FALSE, FALSE)

\* C35: when SelectIndex removed a DocsFilter, the scan it put at the head
\* of the stream has a range.
C35_InstalledScanHasRange ==
    (Chose /\ ~selOut.selected.nil) =>
        /\ Len(selOut.Stream) < Len(selIn.Stream)
        /\ selOut.Stream[1].ranges # <<>>

\* C36: the scan that SelectIndex puts at the head of the stream has the
\* direction of the TableScan it replaces.
C36_DirectionKept ==
    (Chose /\ ~selOut.selected.nil) =>
        selOut.Stream[1].Reverse = selIn.Stream[1].Reverse

\* C34: the stream that SelectIndex leaves gives every document as often as
\* the stream it was given, whatever rows the table holds.
C34_SameDocuments ==
    (selOut.rule = "SelectIndex" /\ selOut.err = ErrNone) =>
        \A doc \in SelDocs : Delivered(selOut.Stream, doc) = Delivered(selIn.Stream, doc)

---------------------------------------------------------------------------
(* Properties of a table scan that its consumer stops *)

\* the calls of fn that returned err
Returned(err) == {n \in 1 .. Len(scanOut.calls) : scanIn.answers[n] = err}

\* C32: once fn has returned ErrStreamClosed, Iterate returns without error
\* and fn is not called again, not for a row of a later range either; any
\* other error of fn ends the scan and is the error Iterate returns.
C32_ClosedStopsTheScan ==
    scanOut.ran =>
        /\ \A n \in Returned(ErrStreamClosed) :
              /\ n = Len(scanOut.calls)
              /\ scanOut.err = ErrNone
        /\ \A n \in Returned("failed") :
              /\ n = Len(scanOut.calls)
              /\ scanOut.err = "failed"

---------------------------------------------------------------------------
(* Properties of Optimize on Concat and Union *)

\* the Concat and Union of a stream, with the number of their operands at
\* every depth; a stream without operands is a leaf
RECURSIVE ShapeOf(_)
ShapeOf(s) ==
    IF IsCompound(s)
    THEN [op |-> s[1].op,
          operands |-> [n \in 1 .. Len(s[1].Streams) |-> ShapeOf(s[1].Streams[n])]]
    ELSE [op |-> "leaf", operands |-> <<>>]

RECURSIVE Flatten(_)
Flatten(ss) == IF ss = <<>> THEN <<>> ELSE Head(ss) \o Flatten(Tail(ss))

\* the streams without operands of a stream, left to right
RECURSIVE LeavesOf(_)
LeavesOf(s) ==
    IF IsCompound(s)
    THEN Flatten([n \in 1 .. Len(s[1].Streams) |-> LeavesOf(s[1].Streams[n])])
    ELSE <<s>>

\* C31: when Optimize succeeds on a stream, the result has the Concat and
\* Union of the stream at every depth, each with as many operands, and every
\* operand stream without operands of its own, in its place, is what the
\* rules (AND-split, constant folding, vacuous filter removal, SelectIndex
\* on the table it scans) make of it.
C31_OperandsOptimizedInPlace ==
    (selOut.rule = "Optimize" /\ selOut.err = ErrNone) =>
        /\ ShapeOf(selOut.Stream) = ShapeOf(selIn.Stream)
        /\ LeavesOf(selOut.Stream) =
               [n \in 1 .. Len(LeavesOf(selIn.Stream)) |->
                   optimize(LeavesOf(selIn.Stream)[n], selIn.Catalog).Stream]

\* a Union of a Concat and a stream: the operands of the Concat became
\* index scans of foo and of bar, the stream lost its filter
C31_NestedOperandsRewritten ==
    /\ selOut.rule = "Optimize" /\ selOut.err = ErrNone
    /\ IsCompound(selIn.Stream) /\ selIn.Stream[1].op = "Union"
    /\ Len(selIn.Stream[1].Streams) = 2
    /\ IsCompound(selIn.Stream[1].Streams[1]) /\ selIn.Stream[1].Streams[1][1].op = "Concat"
    /\ LET inner == selOut.Stream[1].Streams[1][1].Streams
       IN  /\ Len(inner) = 2 /\ inner[1] # <<>> /\ inner[2] # <<>>
           /\ inner[1][1].op = "IndexScan" /\ inner[1][1].name = "idx_foo_a_d"
           /\ inner[2][1].op = "IndexScan" /\ inner[2][1].name = "idx_bar_a_d"
    /\ selOut.Stream[1].Streams[2] = <<TableScan("bar", <<>>)>>


====
